---- MODULE Spec2Model ----
(***************************************************************************)
(* Block-tree / state engine of the proof-of-work account-model node:      *)
(* src/src/blockchain.rs, src/src/state.rs, src/src/block.rs and           *)
(* src/src/transaction.rs.                                                 *)
(*                                                                         *)
(* Digests.  SHA-256 cannot be computed here; it is modelled as what the   *)
(* engine relies on: a fixed injective function of the serialised value.   *)
(* A block digest (H256) is a natural number, ordered as the big-endian    *)
(* byte string is, with 0 the all-zero digest.  A transaction digest is    *)
(* only ever compared for equality, so it is the tagged serialisation.     *)
(***************************************************************************)
EXTENDS Integers, Sequences, FiniteSets, TLC

(***************************************************************************)
(* Bounds of the model.                                                    *)
(***************************************************************************)
\* header nonces offered by the environment are 0..MaxNonce
MaxNonce == 1
\* the environment stops offering blocks once this many non-genesis blocks
\* are held (block tree plus orphanage)
MaxBlocks == 4
\* the environment never offers a block that would make the orphanage hold
\* more than this many blocks
MaxOrphans == 1
\* transaction nonces handed to the State calls are 0..MaxAccountNonce
MaxAccountNonce == 1
\* update_with_transactions is called with at most this many transactions
MaxLen == 2
\* gossip worker threads started (the num_worker of network::worker::new)
NumWorkers == 2
\* Merkle trees are built from 1..MaxLeaves items, each one of 1..MaxItem
MaxLeaves == 4
MaxItem == 2
\* the control channel of the miner holds at most MaxSignals signals
MaxSignals == 2
\* the queue of the gossip workers holds at most MaxQueue payloads
MaxQueue == 1
\* the transaction generator is triggered at most MaxGenerated times
MaxGenerated == 1

(***************************************************************************)
(* H256 and the block header (block.rs)                                    *)
(***************************************************************************)
\* H256::default(): the all-zero digest
ZeroHash == 0
\* the largest H256 (all bytes 0xff), the easiest difficulty a header can carry
MaxHash == 2147483647

\* block.rs default_difficulty(): [0; 32]
default_difficulty == ZeroHash

\* the difficulty values headers of the environment carry
Difficulties == {default_difficulty, MaxHash}
\* timestamps and merkle roots carried by headers of the environment; the
\* engine reads neither field
Timestamps == {0}
MerkleRoots == {ZeroHash}

\* Block::genesis()
genesis ==
  [header |-> [parent |-> ZeroHash, nonce |-> 0, difficulty |-> default_difficulty,
               timestamp |-> 0, merkle_root |-> ZeroHash],
   content |-> [transactions |-> <<>>]]

(***************************************************************************)
(* Keys, addresses and transactions (key_pair.rs, transaction.rs)          *)
(***************************************************************************)
\* a key pair is identified by its seed byte; seeds 0..9 are the ICO pairs of
\* get_deterministic_keypair, NewKey is a pair outside the ICO
IcoKeys == 0 .. 9
NewKey == 10

\* KeyPair::public_key
public_key(key) == 100 + key

\* H160::from_pubkey: the low 20 bytes of the digest of the public key
from_pubkey(pub_key) == 2 * pub_key + 1

Addr(key) == from_pubkey(public_key(key))

\* transaction::sign: Ed25519 is deterministic and unforgeable, so a signature
\* is determined by, and reveals nothing but, the signer and the signed bytes
sign(raw_transaction, key) ==
  [signer |-> public_key(key), message |-> raw_transaction]

\* SignedTransaction::from_raw
from_raw(raw_transaction, key) ==
  [raw_transaction |-> raw_transaction, pub_key |-> public_key(key),
   signature |-> sign(raw_transaction, key)]

\* the pair of checks of SignedTransaction::verify_signature
valid_signature(transaction) ==
  /\ transaction.signature.signer = transaction.pub_key
  /\ transaction.signature.message = transaction.raw_transaction

signed_by_owner(transaction) ==
  from_pubkey(transaction.pub_key) = transaction.raw_transaction.from_addr

\* a mutation of verify_signature that forgets the authorship check
verify_signature_no_owner(transaction) == valid_signature(transaction)

\* SignedTransaction::verify_signature
verify_signature(transaction) ==
  valid_signature(transaction) /\ signed_by_owner(transaction)

\* impl Hashable for SignedTransaction: digest of all three fields
TxHash(transaction) ==
  <<"sha256",
    transaction.raw_transaction.from_addr, transaction.raw_transaction.to_addr,
    transaction.raw_transaction.value, transaction.raw_transaction.nonce,
    transaction.pub_key,
    transaction.signature.signer,
    transaction.signature.message.from_addr, transaction.signature.message.to_addr,
    transaction.signature.message.value, transaction.signature.message.nonce>>

RawTransaction(from_addr, to_addr, value, nonce) ==
  [from_addr |-> from_addr, to_addr |-> to_addr, value |-> value, nonce |-> nonce]

(***************************************************************************)
(* Account state (state.rs)                                                *)
(***************************************************************************)
\* a mutation of AccountInfo::new that opens an account with a coin in it
AccountInfo_new_rich == [nonce |-> 0, balance |-> 1]

\* AccountInfo::new
AccountInfo_new == [nonce |-> 0, balance |-> 0]

\* State::ico: account i gets 1000 * (10 - i) coins, nonce 0
ico ==
  [a \in {Addr(i) : i \in IcoKeys} |->
     LET i == CHOOSE k \in IcoKeys : Addr(k) = a
     IN  [nonce |-> 0, balance |-> 1000 * (10 - i)]]

\* State::check_transaction_validity
check_transaction_validity(state, transaction) ==
  /\ transaction.from_addr \in DOMAIN state
  /\ state[transaction.from_addr].nonce = transaction.nonce
  /\ state[transaction.from_addr].balance >= transaction.value

\* State::update_in_place: [ok, state]; the state is untouched on failure.
\* The debit is written first, the credit reads the debited map.
update_in_place(state, transaction) ==
  IF transaction.from_addr \notin DOMAIN state
    THEN [ok |-> FALSE, state |-> state]
  ELSE IF state[transaction.from_addr].nonce # transaction.nonce
    THEN [ok |-> FALSE, state |-> state]
  ELSE IF state[transaction.from_addr].balance < transaction.value
    THEN [ok |-> FALSE, state |-> state]
  ELSE
    LET spender == state[transaction.from_addr]
        debited == [state EXCEPT ![transaction.from_addr] =
                      [nonce |-> spender.nonce + 1,
                       balance |-> spender.balance - transaction.value]]
        receiver == IF transaction.to_addr \in DOMAIN debited
                      THEN debited[transaction.to_addr] ELSE AccountInfo_new
        credited == [a \in DOMAIN debited \cup {transaction.to_addr} |->
                       IF a = transaction.to_addr
                         THEN [receiver EXCEPT !.balance = @ + transaction.value]
                         ELSE debited[a]]
    IN  [ok |-> TRUE, state |-> credited]

\* a mutation of the loop that goes on after a transaction that failed
all_continues_always(ok) == TRUE

\* line 97: Iterator::all stops at the first update_in_place that returns false
all_continues(ok) == ok

\* State::update_with_transactions: Option<State> as [is_some, state]
RECURSIVE update_with_transactions(_, _)
update_with_transactions(state, transactions) ==
  IF transactions = <<>> THEN [is_some |-> TRUE, state |-> state]
  ELSE LET r == update_in_place(state, Head(transactions))
       IN  IF all_continues(r.ok) THEN update_with_transactions(r.state, Tail(transactions))
           ELSE [is_some |-> FALSE, state |-> state]

\* block.content.transactions.iter().map(|signed| &signed.raw_transaction)
RawTransactions(block) ==
  [i \in 1 .. Len(block.content.transactions) |->
     block.content.transactions[i].raw_transaction]

(***************************************************************************)
(* Merkle tree (crypto/merkle.rs)                                          *)
(***************************************************************************)
\* item.hash() of the items a tree is built from: the items are the numbers
\* 1 .. MaxItem, their digests are distinct and, like any digest, differ from
\* the digest of every concatenation below
ItemHash(item) == item

\* hash_children: SHA-256 of the concatenation lhs ++ rhs, modelled as an
\* injective pairing of the two digests (never below 4 on digests from 1 up)
hash_children(lhs, rhs) == ((lhs + rhs) * (lhs + rhs + 1)) \div 2 + rhs

\* MerkleTreeNode: the hash and the two children, <<>> for the None of a leaf
MerkleTreeNode(hash, children) == [hash |-> hash, children |-> children]

\* lines 47-73: one pass over the array; node 2i joins node 2i+1, or a clone
\* of itself when it is the last of an odd number
single_pass(nodes) ==
  [i \in 1 .. (Len(nodes) + 1) \div 2 |->
     LET lhs == nodes[2 * i - 1]
         rhs == IF 2 * i <= Len(nodes) THEN nodes[2 * i] ELSE lhs
     IN  MerkleTreeNode(hash_children(lhs.hash, rhs.hash), <<lhs, rhs>>)]

\* lines 43-83: passes until one node remains
RECURSIVE aggregate(_, _)
aggregate(nodes, num_aggregations) ==
  IF Len(nodes) > 1 THEN aggregate(single_pass(nodes), num_aggregations + 1)
  ELSE [root |-> nodes[1], num_aggregations |-> num_aggregations]

\* MerkleTree::new (data is not empty: line 28 asserts it)
MerkleTree_new(data) ==
  aggregate([i \in 1 .. Len(data) |-> MerkleTreeNode(ItemHash(data[i]), <<>>)], 0)

\* #[derive(Default)] for MerkleTree: a lone node with the all-zero hash
MerkleTree_default ==
  [root |-> MerkleTreeNode(ZeroHash, <<>>), num_aggregations |-> 0]

\* MerkleTree::root
root(merkle_tree) == merkle_tree.root.hash

\* lines 98-103: the low bit of the index is pushed first
RECURSIVE directions_of(_, _)
directions_of(bit_path, num_aggregations) ==
  IF num_aggregations = 0 THEN <<>>
  ELSE <<bit_path % 2 = 1>> \o directions_of(bit_path \div 2, num_aggregations - 1)

\* lines 105-120: from the root down, the directions in the order they were
\* pushed; the sibling of every node passed is collected
RECURSIVE descend(_, _)
descend(current_node, directions) ==
  IF directions = <<>> THEN <<>>
  ELSE IF Head(directions)
    THEN <<current_node.children[1].hash>>
           \o descend(current_node.children[2], Tail(directions))
    ELSE <<current_node.children[2].hash>>
           \o descend(current_node.children[1], Tail(directions))

\* MerkleTree::proof
proof(merkle_tree, index) ==
  descend(merkle_tree.root, directions_of(index, merkle_tree.num_aggregations))

\* lines 135-146: the proof from its last hash to its first, the bits of the
\* index from the lowest up
RECURSIVE climb(_, _, _)
climb(current_hash, merkle_proof, bit_path) ==
  IF merkle_proof = <<>> THEN current_hash
  ELSE LET sibling_hash == merkle_proof[Len(merkle_proof)]
           rest == SubSeq(merkle_proof, 1, Len(merkle_proof) - 1)
       IN  IF bit_path % 2 = 1
             THEN climb(hash_children(sibling_hash, current_hash), rest, bit_path \div 2)
             ELSE climb(hash_children(current_hash, sibling_hash), rest, bit_path \div 2)

\* merkle::verify
verify(root_hash, datum_hash, merkle_proof, index, num_leaves) ==
  root_hash = climb(datum_hash, merkle_proof, index)

(***************************************************************************)
(* The transactions the miner finds in the mempool, and block headers      *)
(***************************************************************************)
\* account i of the ICO pays one coin to the next account: its first
\* transaction, as transaction_generator.rs builds it
payment(i) == from_raw(RawTransaction(Addr(i), Addr((i + 1) % 10), 1, 0), i)

\* miner.rs lines 19-20
OUR_MINIMUM_BLOCK_SIZE == 5
OUR_MAXIMUM_BLOCK_SIZE == 7

\* the senders whose first payments peers gossip while the miner runs
PoolSenders == 0 .. 7

\* the last of them also signs all it has over to account 0, with the nonce
\* of its payment
double_spend == from_raw(RawTransaction(Addr(7), Addr(0), 1000, 0), 7)

\* transaction.hash() as the Merkle tree sees it: distinct numbers for
\* distinct transactions of the pool
PoolItem(transaction) ==
  IF transaction = double_spend THEN 9
  ELSE 1 + (CHOOSE i \in PoolSenders : payment(i) = transaction)

\* miner.rs lines 198-199: MerkleTree::new(&transactions).root()
merkle_root_of(transactions) ==
  root(MerkleTree_new([i \in 1 .. Len(transactions) |-> PoolItem(transactions[i])]))

\* the pool in the two orders the model lets the mempool's HashMap iterate
\* in: by sender, forwards and backwards
PoolForwards == [i \in 1 .. 5 |-> payment(i - 1)]
PoolBackwards == [i \in 1 .. 5 |-> payment(5 - i)]

\* headers carry the all-zero merkle root (the peers' blocks) or the root the
\* miner computed from the pool in one of these orders
NumPoolOrders == 2
PoolOrders == <<PoolForwards, PoolBackwards>>

\* a timestamp later than the clock of the node that reads it; 0 is a
\* timestamp that is not
FutureTimestamp == 1

\* bincode::serialize(&header): the fields in declaration order, as one
\* mixed-radix number (injective on the headers of the model)
SerializeHeader(header) ==
  LET difficulty_digit == IF header.difficulty = default_difficulty THEN 0 ELSE 1
      merkle_digit ==
        IF header.merkle_root = ZeroHash THEN 0
        ELSE CHOOSE i \in 1 .. NumPoolOrders :
               merkle_root_of(PoolOrders[i]) = header.merkle_root
  IN  (((header.parent * (MaxNonce + 1) + header.nonce) * 2 + difficulty_digit)
         * (FutureTimestamp + 1) + header.timestamp)
         * (NumPoolOrders + 1) + merkle_digit

\* the digest of the genesis header: some fixed non-zero value
genesis_hash == 1

\* a header whose digest is all-zero; with the genesis difficulty [0; 32] it is
\* the only header that can extend genesis
ZeroPreimage ==
  [parent |-> genesis_hash, nonce |-> 0, difficulty |-> MaxHash,
   timestamp |-> 0, merkle_root |-> ZeroHash]

\* impl Hashable for Header: SHA-256 of the serialised header, modelled as the
\* serialisation followed by a fixed permutation of the digests (so it stays
\* injective) that sends the genesis header to genesis_hash and ZeroPreimage
\* to the all-zero digest
HeaderHash(header) ==
  LET bytes == SerializeHeader(header)
  IN  CASE bytes = SerializeHeader(genesis.header) -> genesis_hash
        [] bytes = SerializeHeader(ZeroPreimage) -> ZeroHash
        [] bytes = genesis_hash -> SerializeHeader(ZeroPreimage)
        [] OTHER -> bytes

\* impl Hashable for Block: the hash of the header only
BlockHash(block) == HeaderHash(block.header)

(***************************************************************************)
(* The engine (blockchain.rs).  An engine value bc is the struct           *)
(* Blockchain: hash_to_block maps a block hash to (block, height, state),  *)
(* orphanage maps a missing parent hash to the blocks waiting for it in    *)
(* arrival order, mempool maps a transaction hash to the transaction.      *)
(***************************************************************************)
\* Blockchain::new
Blockchain_new ==
  [hash_to_block |-> (BlockHash(genesis) :> [block |-> genesis, height |-> 0, state |-> ico]),
   tip |-> BlockHash(genesis),
   orphanage |-> << >>,
   mempool |-> << >>,
   dirty_mempool |-> FALSE]

\* Blockchain::tip_data
tip_data(bc) == bc.hash_to_block[bc.tip]

\* a mutation of the duplicate check that never recognises a stored block
contains_block_never(bc, hash) == FALSE

\* line 69: self.hash_to_block.contains_key(&block.hash())
contains_block(bc, hash) == hash \in DOMAIN bc.hash_to_block

\* a mutation of the proof-of-work check that lets every hash pass
rejects_hash_never(block, hash, required_difficulty) == FALSE

\* a mutation of the proof-of-work check that compares the hash with the
\* difficulty the block itself carries
rejects_hash_own_difficulty(block, hash, required_difficulty) ==
  hash > block.header.difficulty

\* line 82: hash > required_difficulty rejects the block
rejects_hash(block, hash, required_difficulty) == hash > required_difficulty

\* a mutation of the height computation that copies the parent's height
block_height_of_same(parent_height) == parent_height

\* line 103: let block_height = parent_height + 1
block_height_of(parent_height) == parent_height + 1

\* a mutation of the stored state that keeps the parent's state, as the
\* unvalidated insert_block does
stored_state_parent(parent_state, new_state) == parent_state

\* line 105: the state stored with the block is Arc::new(new_state)
stored_state(parent_state, new_state) == new_state

\* a mutation of the fork choice that moves the tip to every added block
is_new_tallest_always(block_height, current_tallest_height) == block_height > 0

\* a mutation of the fork choice that also moves the tip on a tie
is_new_tallest_or_tie(block_height, current_tallest_height) ==
  block_height >= current_tallest_height

\* line 112: block_height > current_tallest_height
is_new_tallest(block_height, current_tallest_height) ==
  block_height > current_tallest_height

\* a mutation of the drain that leaves the mempool as it is
remove_block_transactions_none(mempool, block) == mempool

\* lines 98-100: remove the block's transactions from the mempool
remove_block_transactions(mempool, block) ==
  LET included == {TxHash(block.content.transactions[i]) :
                     i \in 1 .. Len(block.content.transactions)}
  IN  [h \in DOMAIN mempool \ included |-> mempool[h]]

\* a mutation of the pruning that only clears the flag
prune_nothing(bc) == [bc EXCEPT !.dirty_mempool = FALSE]

\* Blockchain::prune_invalid_transactions
prune_invalid_transactions(bc) ==
  LET latest_state == tip_data(bc).state
      retained == {h \in DOMAIN bc.mempool :
                     check_transaction_validity(latest_state, bc.mempool[h].raw_transaction)}
  IN  [bc EXCEPT !.mempool = [h \in retained |-> bc.mempool[h]],
                 !.dirty_mempool = FALSE]

\* a mutation of the orphan hand-over that leaves the list in the orphanage
orphanage_keep(orphanage, hash) == orphanage

\* line 120: self.orphanage.remove(&hash), the map that remains
orphanage_remove(orphanage, hash) ==
  [p \in DOMAIN orphanage \ {hash} |-> orphanage[p]]

\* line 132: self.orphanage.entry(*parent_hash).or_default().push(block)
orphanage_push(orphanage, parent_hash, block) ==
  [p \in DOMAIN orphanage \cup {parent_hash} |->
     IF p = parent_hash
       THEN Append(IF p \in DOMAIN orphanage THEN orphanage[p] ELSE <<>>, block)
       ELSE orphanage[p]]

\* a mutation of the hand-back that puts the promoted blocks first
append_added_front(added_blocks, added_children) == added_children \o added_blocks

\* line 123: added_blocks.append(&mut added_children)
append_added(added_blocks, added_children) == added_blocks \o added_children

\* Blockchain::insert_block_with_validation: [bc, added_blocks], the engine
\* after the call and the returned list.  insert_orphan_children is the loop
\* of lines 121-124 over the orphans taken out of the orphanage.
RECURSIVE insert_block_with_validation(_, _), insert_orphan_children(_, _, _)
insert_block_with_validation(bc, block) ==
  LET hash == BlockHash(block)
      parent_hash == block.header.parent
  IN
  IF contains_block(bc, hash) THEN [bc |-> bc, added_blocks |-> <<>>]
  ELSE IF parent_hash \in DOMAIN bc.hash_to_block THEN
    LET parent == bc.hash_to_block[parent_hash]
        required_difficulty == parent.block.header.difficulty
        new_state == update_with_transactions(parent.state, RawTransactions(block))
    IN
    IF rejects_hash(block, hash, required_difficulty) THEN [bc |-> bc, added_blocks |-> <<>>]
    ELSE IF ~new_state.is_some THEN [bc |-> bc, added_blocks |-> <<>>]
    ELSE
      LET block_height == block_height_of(parent.height)
          current_tallest_height == tip_data(bc).height
          new_tip == is_new_tallest(block_height, current_tallest_height)
          inserted ==
            [bc EXCEPT
               !.mempool = remove_block_transactions(bc.mempool, block),
               !.hash_to_block =
                  (hash :> [block |-> block, height |-> block_height,
                            state |-> stored_state(parent.state, new_state.state)])
                  @@ bc.hash_to_block,
               !.tip = IF new_tip THEN hash ELSE bc.tip,
               !.dirty_mempool = IF new_tip THEN TRUE ELSE bc.dirty_mempool]
          orphan_children ==
            IF hash \in DOMAIN inserted.orphanage THEN inserted.orphanage[hash] ELSE <<>>
          taken == [inserted EXCEPT !.orphanage = orphanage_remove(inserted.orphanage, hash)]
          r == insert_orphan_children(taken, orphan_children, <<hash>>)
      IN  [bc |-> IF r.bc.dirty_mempool THEN prune_invalid_transactions(r.bc) ELSE r.bc,
           added_blocks |-> r.added_blocks]
  ELSE
    [bc |-> [bc EXCEPT !.orphanage = orphanage_push(bc.orphanage, parent_hash, block)],
     added_blocks |-> <<>>]

insert_orphan_children(bc, orphan_children, added_blocks) ==
  IF orphan_children = <<>> THEN [bc |-> bc, added_blocks |-> added_blocks]
  ELSE LET r == insert_block_with_validation(bc, Head(orphan_children))
       IN  insert_orphan_children(r.bc, Tail(orphan_children),
                                  append_added(added_blocks, r.added_blocks))

\* Blockchain::get_transaction
get_transaction_is_some(bc, hash) == hash \in DOMAIN bc.mempool

\* Blockchain::insert_transaction_with_validation: [bc, accepted]
insert_transaction_with_validation(bc, transaction) ==
  LET hash == TxHash(transaction)
  IN  IF get_transaction_is_some(bc, hash) THEN [bc |-> bc, accepted |-> FALSE]
      ELSE IF ~verify_signature(transaction) THEN [bc |-> bc, accepted |-> FALSE]
      ELSE IF ~check_transaction_validity(tip_data(bc).state, transaction.raw_transaction)
        THEN [bc |-> bc, accepted |-> FALSE]
      ELSE [bc |-> [bc EXCEPT !.mempool = (hash :> transaction) @@ bc.mempool],
            accepted |-> TRUE]

(***************************************************************************)
(* Gossip worker (network/worker.rs) and transaction generator             *)
(* (transaction_generator.rs)                                              *)
(***************************************************************************)
\* enum Message, with the three transaction variants worker_loop matches on
Message(kind, body) == [kind |-> kind, body |-> body]
MessageKinds ==
  {"Ping", "Pong", "NewBlockHashes", "GetBlocks", "Blocks",
   "NewTransactionHashes", "GetTransactions", "Transactions"}

\* A payload of the queue is the Message it deserialises to; a payload that is
\* the serialisation of no Message has a kind outside MessageKinds.
\* line 55: bincode::deserialize(&msg) is Ok
deserialize_is_ok(payload) == payload.kind \in MessageKinds

\* peer.write(message) and self.server.broadcast(message)
peer_write(message) == [to |-> "peer", message |-> message]
server_broadcast(message) == [to |-> "all", message |-> message]

\* SystemTime::now() as the node reads it: its clock stands at 0, a header
\* timestamp of FutureTimestamp was written by a clock ahead of it
now == 0

\* a mutation of the filter of announced hashes that takes every hash as unknown
look_up_block_is_none_always(bc, hash) == TRUE

\* Blockchain::look_up_block(hash).is_none()
look_up_block_is_none(bc, hash) == hash \notin DOMAIN bc.hash_to_block

\* lines 67-70
unknown_block_hashes(bc, new_block_hashes) ==
  LET is_unknown(new_hash) == look_up_block_is_none(bc, new_hash)
  IN  SelectSeq(new_block_hashes, is_unknown)

\* lines 79-83: the requested blocks the engine has
requested_blocks_of(bc, requested_block_hashes) ==
  LET is_known(hash) == ~look_up_block_is_none(bc, hash)
      known == SelectSeq(requested_block_hashes, is_known)
  IN  [i \in 1 .. Len(known) |-> bc.hash_to_block[known[i]].block]

\* lines 97-102: [bc, all_added_blocks, panicked].  `now - timestamp` is a
\* u128 subtraction: a build with overflow checks panics on a timestamp later
\* than now, before the block is inserted; a build without them wraps, and
\* the latency is not used.
RECURSIVE insert_blocks(_, _, _, _)
\* line 101 and the next turn of the loop: r is what the insert returned
append_and_continue(r, blocks, all_added_blocks, overflow_checks) ==
  insert_blocks(r.bc, Tail(blocks), all_added_blocks \o r.added_blocks, overflow_checks)

insert_blocks(bc, blocks, all_added_blocks, overflow_checks) ==
  IF blocks = <<>>
    THEN [bc |-> bc, all_added_blocks |-> all_added_blocks, panicked |-> FALSE]
  ELSE IF overflow_checks /\ Head(blocks).header.timestamp > now
    THEN [bc |-> bc, all_added_blocks |-> all_added_blocks, panicked |-> TRUE]
  ELSE append_and_continue(insert_block_with_validation(bc, Head(blocks)),
                           blocks, all_added_blocks, overflow_checks)

\* lines 110-113
unknown_transaction_hashes(bc, new_transaction_hashes) ==
  LET is_unknown(new_hash) == ~get_transaction_is_some(bc, new_hash)
  IN  SelectSeq(new_transaction_hashes, is_unknown)

\* lines 122-126
requested_transactions_of(bc, requested_hashes) ==
  LET is_known(hash) == get_transaction_is_some(bc, hash)
      known == SelectSeq(requested_hashes, is_known)
  IN  [i \in 1 .. Len(known) |-> bc.mempool[known[i]]]

\* a mutation of the Transactions handler that announces every transaction
push_if_accepted_always(all_added_transactions, hash, accepted) ==
  Append(all_added_transactions, hash)

\* lines 138-140: the hash is pushed if the insert returned true
push_if_accepted(all_added_transactions, hash, accepted) ==
  IF accepted THEN Append(all_added_transactions, hash) ELSE all_added_transactions

\* lines 135-141: [bc, all_added_transactions]
RECURSIVE insert_transactions(_, _, _)
\* lines 138-140 and the next turn of the loop: r is what the insert returned
push_and_continue(r, hash, transactions, all_added_transactions) ==
  insert_transactions(r.bc, Tail(transactions),
                      push_if_accepted(all_added_transactions, hash, r.accepted))

insert_transactions(bc, transactions, all_added_transactions) ==
  IF transactions = <<>>
    THEN [bc |-> bc, all_added_transactions |-> all_added_transactions]
  ELSE push_and_continue(insert_transaction_with_validation(bc, Head(transactions)),
                         TxHash(Head(transactions)), transactions,
                         all_added_transactions)

\* a non-empty list is sent as one message, an empty one is not sent
send_if_not_empty(list, envelope) == IF list = <<>> THEN <<>> ELSE <<envelope>>

\* lines 72-74, 85-87, 115-117, 128-130: the reply to the sending peer
reply_if_not_empty(bc, kind, list) ==
  [bc |-> bc, sent |-> send_if_not_empty(list, peer_write(Message(kind, list))),
   panicked |-> FALSE]

\* lines 103-105: r is what the loop over the blocks left
blocks_handled(r) ==
  [bc |-> r.bc,
   sent |-> IF r.panicked THEN <<>>
            ELSE send_if_not_empty(r.all_added_blocks,
                   server_broadcast(Message("NewBlockHashes", r.all_added_blocks))),
   panicked |-> r.panicked]

\* lines 142-144: r is what the loop over the transactions left
transactions_handled(r) ==
  [bc |-> r.bc,
   sent |-> send_if_not_empty(r.all_added_transactions,
              server_broadcast(Message("NewTransactionHashes",
                                       r.all_added_transactions))),
   panicked |-> FALSE]

\* One turn of worker_loop on a dequeued payload: [bc, sent, panicked], the
\* engine after it, the messages sent, and whether the thread panicked.
handle_payload(bc, payload, overflow_checks) ==
  IF ~deserialize_is_ok(payload)
    THEN [bc |-> bc, sent |-> <<>>, panicked |-> TRUE]
  ELSE CASE payload.kind = "Ping" ->
         [bc |-> bc, sent |-> <<peer_write(Message("Pong", payload.body))>>,
          panicked |-> FALSE]
    [] payload.kind = "Pong" ->
         [bc |-> bc, sent |-> <<>>, panicked |-> FALSE]
    [] payload.kind = "NewBlockHashes" ->
         reply_if_not_empty(bc, "GetBlocks", unknown_block_hashes(bc, payload.body))
    [] payload.kind = "GetBlocks" ->
         reply_if_not_empty(bc, "Blocks", requested_blocks_of(bc, payload.body))
    [] payload.kind = "Blocks" ->
         blocks_handled(insert_blocks(bc, payload.body, <<>>, overflow_checks))
    [] payload.kind = "NewTransactionHashes" ->
         reply_if_not_empty(bc, "GetTransactions",
                            unknown_transaction_hashes(bc, payload.body))
    [] payload.kind = "GetTransactions" ->
         reply_if_not_empty(bc, "Transactions",
                            requested_transactions_of(bc, payload.body))
    [] payload.kind = "Transactions" ->
         transactions_handled(insert_transactions(bc, payload.body, <<>>))

\* transaction_generator.rs lines 63-82: the transaction of one trigger; an
\* invalid one is signed with the receiver's key
generated_transaction(bc, sender_acc, receiver_acc_num, valid) ==
  LET from_addr == Addr(sender_acc)
      to_addr == Addr(receiver_acc_num)
      nonce == tip_data(bc).state[from_addr].nonce
  IN  from_raw(RawTransaction(from_addr, to_addr, 1, nonce),
               IF valid THEN sender_acc ELSE receiver_acc_num)

(***************************************************************************)
(* Miner (miner.rs)                                                        *)
(***************************************************************************)
\* enum OperatingState
Paused == [kind |-> "Paused", lambda |-> 0]
Run(lambda) == [kind |-> "Run", lambda |-> lambda]
ShutDown == [kind |-> "ShutDown", lambda |-> 0]

\* enum ControlSignal
Start(lambda) == [kind |-> "Start", lambda |-> lambda]
Exit == [kind |-> "Exit", lambda |-> 0]

\* a mutation of handle_control_signal that pauses the miner on Exit
handle_control_signal_pause(signal) ==
  IF signal.kind = "Exit" THEN Paused ELSE Run(signal.lambda)

\* Context::handle_control_signal: the new operating state
handle_control_signal(signal) ==
  IF signal.kind = "Exit" THEN ShutDown ELSE Run(signal.lambda)

\* a mutation of the loop that goes on mining in the iteration that took Exit
returns_after_poll_never(state) == FALSE

\* lines 123-125: return if the poll left the miner in ShutDown
returns_after_poll(state) == state.kind = "ShutDown"

\* Blockchain::mempool_transactions: the mempool's HashMap iterates in an
\* order the code does not choose; the model lets it be by sender address,
\* forwards or backwards
RECURSIVE by_sender(_)
by_sender(transactions) ==
  IF transactions = {} THEN <<>>
  ELSE LET first == CHOOSE t \in transactions :
                      \A u \in transactions :
                        t.raw_transaction.from_addr <= u.raw_transaction.from_addr
       IN  <<first>> \o by_sender(transactions \ {first})

\* a HashMap iterates in an order of its own: here by sender, or backwards
iteration_orders(forwards) ==
  {forwards, [i \in 1 .. Len(forwards) |-> forwards[Len(forwards) + 1 - i]]}
mempool_transactions(bc) ==
  iteration_orders(by_sender({bc.mempool[hash] : hash \in DOMAIN bc.mempool}))

\* lines 172-184: the transactions of the mempool that apply one after the
\* other to the parent's state, at most OUR_MAXIMUM_BLOCK_SIZE of them
RECURSIVE select_transactions(_, _, _)
\* lines 178-182: r is what update_in_place said of the first pending one
keep_if_applied(r, pending, transactions) ==
  select_transactions(r.state, Tail(pending),
                      IF r.ok THEN Append(transactions, Head(pending))
                      ELSE transactions)

select_transactions(state, pending, transactions) ==
  IF pending = <<>> \/ Len(transactions) >= OUR_MAXIMUM_BLOCK_SIZE THEN transactions
  ELSE keep_if_applied(update_in_place(state, Head(pending).raw_transaction),
                       pending, transactions)

block_of_selected_any(parent_hash, difficulty, starting_nonce, timestamp, transactions) ==
  IF transactions = <<>> THEN <<>>
  ELSE <<[header |-> [parent |-> parent_hash, nonce |-> starting_nonce,
                      difficulty |-> difficulty, timestamp |-> timestamp,
                      merkle_root |-> merkle_root_of(transactions)],
          content |-> [transactions |-> transactions]]>>

\* lines 186-209: the block of the selected transactions, if they are enough
block_of_selected(parent_hash, difficulty, starting_nonce, timestamp, transactions) ==
  IF Len(transactions) < OUR_MINIMUM_BLOCK_SIZE THEN <<>>
  ELSE <<[header |-> [parent |-> parent_hash, nonce |-> starting_nonce,
                      difficulty |-> difficulty,
                      timestamp |-> timestamp,
                      merkle_root |-> merkle_root_of(transactions)],
          content |-> [transactions |-> transactions]]>>

\* Context::create_next_block: Option<Block>, <<>> for None; pending is the
\* mempool in the order it iterates in, timestamp the clock reading
create_next_block(bc, starting_nonce, pending, timestamp) ==
  block_of_selected(bc.tip, tip_data(bc).block.header.difficulty, starting_nonce,
                    timestamp, select_transactions(tip_data(bc).state, pending, <<>>))

(***************************************************************************)
(* The environment: the transactions and blocks callers hand to the engine *)
(***************************************************************************)
\* account 0 pays account 1 (its first and second transaction)
tx_pay_0 == from_raw(RawTransaction(Addr(0), Addr(1), 1, 0), 0)
tx_pay_1 == from_raw(RawTransaction(Addr(0), Addr(1), 1, 1), 0)
\* account 0 moves its whole balance to an account outside the ICO
tx_drain == from_raw(RawTransaction(Addr(0), Addr(NewKey), 10000, 0), 0)
\* the account outside the ICO pays back
tx_new_sender == from_raw(RawTransaction(Addr(NewKey), Addr(0), 1, 0), NewKey)
\* account 1's money, signed with account 0's key (the generator's
\* deliberately unauthentic transaction)
tx_not_owner == from_raw(RawTransaction(Addr(1), Addr(0), 1, 0), 0)
\* account 0's transaction altered after signing
tx_tampered == [tx_pay_0 EXCEPT !.raw_transaction.value = 2]
\* account 9 spends more than it has
tx_overdraft == from_raw(RawTransaction(Addr(9), Addr(0), 1001, 0), 9)

Transactions ==
  {tx_pay_0, tx_pay_1, tx_drain, tx_new_sender, tx_not_owner, tx_tampered, tx_overdraft}

\* the transaction lists of the blocks of the environment: no transaction, or
\* the first two transactions of account 0 (valid on the ICO state, a replay
\* on every state that already has them)
Contents == {<<>>, <<tx_pay_0, tx_pay_1>>}

\* A family of blocks that peers send in any order (worker.rs hands every
\* block of a Blocks message to the engine as it comes): the block with the
\* all-zero hash on genesis, two children of it, a child of each of them, and
\* a second child of the first that repeats its parent's transactions.
ChildBlock(parent_block, nonce, transactions) ==
  [header |-> [parent |-> BlockHash(parent_block), nonce |-> nonce,
               difficulty |-> MaxHash, timestamp |-> 0, merkle_root |-> ZeroHash],
   content |-> [transactions |-> transactions]]
family_root == [header |-> ZeroPreimage, content |-> [transactions |-> <<>>]]
family_a == ChildBlock(family_root, 0, <<tx_pay_0, tx_pay_1>>)
family_b == ChildBlock(family_root, 1, <<>>)
family_a_child == ChildBlock(family_a, 0, <<>>)
family_b_child == ChildBlock(family_b, 0, <<>>)
family_a_replay == ChildBlock(family_a, 1, <<tx_pay_0, tx_pay_1>>)
Family ==
  {family_root, family_a, family_b, family_a_child, family_b_child, family_a_replay}

\* The raw transactions handed to State::update_in_place: senders are an
\* ICO account and an account outside the ICO, values are one coin and the
\* whole balance of account 0, nonces are 0..MaxAccountNonce.
LedgerSenders == {Addr(0), Addr(NewKey)}
LedgerReceivers == {Addr(0), Addr(1), Addr(NewKey)}
LedgerValues == {1, 10000}
RawChoices ==
  {RawTransaction(f, t, v, n) :
     f \in LedgerSenders, t \in LedgerReceivers, v \in LedgerValues,
     n \in 0 .. MaxAccountNonce}

\* The transaction lists handed to State::update_with_transactions: up to
\* MaxLen payments of one coin, of account 0 with any nonce or the first of
\* the account outside the ICO.
SeqChoices ==
  {RawTransaction(Addr(0), Addr(1), 1, n) : n \in 0 .. MaxAccountNonce}
    \cup {RawTransaction(Addr(NewKey), Addr(0), 1, 0)}
TxSeqs == UNION {[1 .. n -> SeqChoices] : n \in 0 .. MaxLen}

\* the engine (struct Blockchain), a State that update_in_place and
\* update_with_transactions are called on, and what the last of these calls
\* returned
VARIABLES hash_to_block, tip, orphanage, mempool, dirty_mempool, ledger, returned

\* the items a Merkle tree was built from, the tree, and the last proof made
\* from it with what merkle::verify said of it
VARIABLES merkle_data, merkle_tree, verified

\* the miner thread (miner.rs Context and the locals of miner_loop): its
\* operating state, the control channel, where it stands in the loop and the
\* candidate block it works on
VARIABLES operating_state, control_chan, miner_pc, current_block

\* the gossip side: the queue the peer transport fills (msg_chan), the worker
\* threads still running, the generator's round-robin counter, and the
\* messages the last step of any thread sent (peer.write, server.broadcast)
VARIABLES msg_chan, workers, next_sender_acc, sent

\* every hash insert_block_with_validation has returned to a caller that the
\* node follows the returned lists of, in the order of return
VARIABLES novelty

\* the engine lock (Arc<Mutex<Blockchain>>): who holds it, "free" when nobody
\* does and "poisoned" once a thread has panicked with it; and the locals of
\* the gossip worker that is followed line by line: where it stands, the
\* payload it took off the queue and the messages it is about to send
VARIABLES lock, worker_pc, in_hand, outbox

\* a second node: its engine, the queue of its gossip workers and how many of
\* them run, and every NewBlockHashes a gossip worker of either node has
\* broadcast
VARIABLES peer_engine, peer_chan, peer_workers, announced

engine_vars == <<hash_to_block, tip, orphanage, mempool, dirty_mempool>>
merkle_vars == <<merkle_data, merkle_tree, verified>>
miner_vars == <<operating_state, control_chan, miner_pc, current_block>>
gossip_vars == <<msg_chan, workers, next_sender_acc>>
lock_vars == <<lock, worker_pc, in_hand, outbox>>
net_vars == <<peer_engine, peer_chan, peer_workers, announced>>

vars ==
  <<hash_to_block, tip, orphanage, mempool, dirty_mempool, ledger, returned,
    merkle_vars, miner_vars, gossip_vars, sent, novelty, lock_vars, net_vars>>

\* the engine as one value
Self ==
  [hash_to_block |-> hash_to_block, tip |-> tip, orphanage |-> orphanage,
   mempool |-> mempool, dirty_mempool |-> dirty_mempool]

SetSelf(bc) ==
  /\ hash_to_block' = bc.hash_to_block
  /\ tip' = bc.tip
  /\ orphanage' = bc.orphanage
  /\ mempool' = bc.mempool
  /\ dirty_mempool' = bc.dirty_mempool

\* the blocks waiting in an orphanage
OrphansOf(orph) == UNION {{orph[p][i] : i \in 1 .. Len(orph[p])} : p \in DOMAIN orph}
OrphanCount(orph) ==
  LET RECURSIVE Sum(_)
      Sum(ps) == IF ps = {} THEN 0
                 ELSE LET p == CHOOSE q \in ps : TRUE
                      IN  Len(orph[p]) + Sum(ps \ {p})
  IN  Sum(DOMAIN orph)

\* the parents a peer builds on: a block of the tree, a block still waiting
\* in the orphanage, or the not yet seen block with the all-zero hash
ParentChoices(bc) ==
  DOMAIN bc.hash_to_block \cup {BlockHash(b) : b \in OrphansOf(bc.orphanage)} \cup {ZeroHash}

\* the blocks a caller can hand to the engine in a state
BlockChoices(bc) ==
  {[header |-> [parent |-> p, nonce |-> n, difficulty |-> d, timestamp |-> t,
                merkle_root |-> m],
    content |-> [transactions |-> c]] :
     p \in ParentChoices(bc), n \in 0 .. MaxNonce, d \in Difficulties,
     t \in Timestamps, m \in MerkleRoots, c \in Contents}

\* Blockchain::new()
Init ==
  /\ hash_to_block = Blockchain_new.hash_to_block
  /\ tip = Blockchain_new.tip
  /\ orphanage = Blockchain_new.orphanage
  /\ mempool = Blockchain_new.mempool
  /\ dirty_mempool = Blockchain_new.dirty_mempool
  /\ ledger = ico
  /\ returned = [op |-> "none", ok |-> FALSE, state |-> ico]
  /\ merkle_data = <<>>
  /\ merkle_tree = MerkleTree_default
  /\ verified = [index |-> 0, proof |-> <<>>, ok |-> FALSE]
  /\ operating_state = Paused
  /\ control_chan = <<>>
  /\ miner_pc = "loop"
  /\ current_block = <<>>
  /\ msg_chan = <<>>
  /\ workers = NumWorkers
  /\ next_sender_acc = 0
  /\ sent = <<>>
  /\ novelty = <<>>
  /\ lock = "free"
  /\ worker_pc = "recv"
  /\ in_hand = <<>>
  /\ outbox = <<>>
  /\ peer_engine = Blockchain_new
  /\ peer_chan = <<>>
  /\ peer_workers = NumWorkers
  /\ announced = <<>>

\* a call of insert_block_with_validation
InsertBlock ==
  /\ Cardinality(DOMAIN hash_to_block) - 1 + OrphanCount(orphanage) < MaxBlocks
  /\ \E block \in BlockChoices(Self) :
       LET r == insert_block_with_validation(Self, block)
       IN  /\ OrphanCount(r.bc.orphanage) <= MaxOrphans
           /\ SetSelf(r.bc)
  /\ UNCHANGED <<lock_vars, net_vars, novelty, ledger, returned, merkle_vars,
                 miner_vars, gossip_vars, sent>>

\* a call of insert_transaction_with_validation
InsertTransaction ==
  /\ \E transaction \in Transactions :
       SetSelf(insert_transaction_with_validation(Self, transaction).bc)
  /\ UNCHANGED <<lock_vars, net_vars, novelty, ledger, returned, merkle_vars,
                 miner_vars, gossip_vars, sent>>

Next == InsertBlock \/ InsertTransaction

Spec == Init /\ [][Next]_vars

\* a call of insert_block_with_validation with a block of the family that is
\* neither stored nor waiting (a peer sends each block once, in any order)
DeliverBlock ==
  /\ \E block \in Family :
       /\ BlockHash(block) \notin DOMAIN hash_to_block
       /\ block \notin OrphansOf(orphanage)
       /\ SetSelf(insert_block_with_validation(Self, block).bc)
  /\ UNCHANGED <<lock_vars, net_vars, novelty, ledger, returned, merkle_vars,
                 miner_vars, gossip_vars, sent>>

NextDelivery == DeliverBlock \/ InsertTransaction

\* the engine fed with the family in any order, and with transactions
SpecDelivery == Init /\ [][NextDelivery]_vars

\* a call of State::update_in_place on the ledger, which it mutates
UpdateInPlace ==
  /\ \E transaction \in RawChoices :
       LET r == update_in_place(ledger, transaction)
       IN  /\ ledger' = r.state
           /\ returned' = [op |-> "update_in_place", ok |-> r.ok, state |-> r.state]
  /\ UNCHANGED <<lock_vars, net_vars, novelty, engine_vars, merkle_vars, miner_vars,
                 gossip_vars, sent>>

\* a call of State::update_with_transactions on the ledger (&self: the work
\* is done on a clone, line 95); returned holds the Option, None with the
\* ledger in the state field
UpdateWithTransactions ==
  /\ \E transactions \in TxSeqs :
       LET r == update_with_transactions(ledger, transactions)
       IN  returned' = [op |-> "update_with_transactions", ok |-> r.is_some,
                        state |-> IF r.is_some THEN r.state ELSE ledger]
  /\ UNCHANGED <<lock_vars, net_vars, novelty, ledger, engine_vars, merkle_vars,
                 miner_vars, gossip_vars, sent>>

NextState == UpdateInPlace \/ UpdateWithTransactions

\* a State, starting as State::ico, under any sequence of the two calls
SpecState == Init /\ [][NextState]_vars

\* the item lists trees are built from
MerkleData == UNION {[1 .. n -> 1 .. MaxItem] : n \in 1 .. MaxLeaves}

\* a call of MerkleTree::new; no proof has been made from the new tree
MerkleNew ==
  /\ \E data \in MerkleData :
       /\ merkle_data' = data
       /\ merkle_tree' = MerkleTree_new(data)
       /\ verified' = [index |-> 0, proof |-> <<>>, ok |-> FALSE]
  /\ UNCHANGED <<lock_vars, net_vars, novelty, engine_vars, ledger, returned,
                 miner_vars, gossip_vars, sent>>

\* a call of MerkleTree::proof for an item of the tree, and of merkle::verify
\* on what it returned
MerkleProve ==
  /\ \E index \in 0 .. Len(merkle_data) - 1 :
       LET merkle_proof == proof(merkle_tree, index)
       IN  verified' =
             [index |-> index, proof |-> merkle_proof,
              ok |-> verify(root(merkle_tree), ItemHash(merkle_data[index + 1]),
                            merkle_proof, index, Len(merkle_data))]
  /\ UNCHANGED <<lock_vars, net_vars, novelty, merkle_data, merkle_tree, engine_vars,
                 ledger, returned,
                 miner_vars, gossip_vars, sent>>

NextMerkle == MerkleNew \/ MerkleProve

\* trees built and proofs made and verified
SpecMerkle == Init /\ [][NextMerkle]_vars

(***************************************************************************)
(* The node with its miner thread: peers deliver blocks and transactions,  *)
(* the API sends control signals                                           *)
(***************************************************************************)
\* a peer's block with the very header the miner builds on the all-zero-hash
\* block from the pool taken forwards, starting nonce 0
twin ==
  [header |-> [parent |-> BlockHash(family_root), nonce |-> 0, difficulty |-> MaxHash,
               timestamp |-> now, merkle_root |-> merkle_root_of(PoolForwards)],
   content |-> [transactions |-> PoolForwards]]

\* what peers send while the miner runs: the block the miner can build on, a
\* block on it that holds the first transaction of the pool (family_a), the
\* twin, and the pool
MinerPayloads ==
  {Message("Blocks", <<family_root>>), Message("Blocks", <<family_a>>),
   Message("Blocks", <<twin>>), Message("Transactions", PoolForwards)}

\* the lambdas the API starts the miner with
Lambdas == {0, 1}
ControlSignals == {Start(lambda) : lambda \in Lambdas} \cup {Exit}

\* the end of a turn of worker_loop: r is what handle_payload returned; a
\* panic ends the thread
Handled(r) ==
  /\ SetSelf(r.bc)
  /\ sent' = r.sent
  /\ workers' = IF r.panicked THEN workers - 1 ELSE workers

\* peers send nothing that would make the orphanage hold more than
\* MaxOrphans blocks
HandledWithinBounds(r) == OrphanCount(r.bc.orphanage) <= MaxOrphans /\ Handled(r)

\* one turn of worker_loop on a payload a peer has just sent
Receive(payloads) ==
  /\ workers > 0
  /\ \E payload \in payloads, overflow_checks \in BOOLEAN :
       HandledWithinBounds(handle_payload(Self, payload, overflow_checks))
  /\ UNCHANGED <<lock_vars, net_vars, novelty, msg_chan, next_sender_acc, ledger,
                 returned, merkle_vars, miner_vars>>

ReceiveWhileMining == Receive(MinerPayloads)

\* Handle::start and Handle::exit: a signal is sent on the control channel
\* (the send fails once the miner has returned and dropped the receiver)
SendControl ==
  /\ miner_pc # "returned"
  /\ Len(control_chan) < MaxSignals
  /\ \E signal \in ControlSignals : control_chan' = Append(control_chan, signal)
  /\ sent' = <<>>
  /\ UNCHANGED <<lock_vars, net_vars, novelty, operating_state, miner_pc,
                 current_block, engine_vars, ledger,
                 returned, merkle_vars, gossip_vars>>

\* lines 107-111: Paused, the miner blocks on the channel until a signal comes
MinerPaused ==
  /\ miner_pc = "loop"
  /\ operating_state.kind = "Paused"
  /\ control_chan # <<>>
  /\ operating_state' = handle_control_signal(Head(control_chan))
  /\ control_chan' = Tail(control_chan)
  /\ sent' = <<>>
  /\ UNCHANGED <<lock_vars, net_vars, novelty, miner_pc, current_block, engine_vars,
                 ledger, returned, merkle_vars,
                 gossip_vars>>

\* lines 112-114: ShutDown at the top of the loop, the thread returns
MinerShutDown ==
  /\ miner_pc = "loop"
  /\ operating_state.kind = "ShutDown"
  /\ miner_pc' = "returned"
  /\ sent' = <<>>
  /\ UNCHANGED <<lock_vars, net_vars, novelty, operating_state, control_chan,
                 current_block, engine_vars, ledger,
                 returned, merkle_vars, gossip_vars>>

\* lines 115-125: Run, the channel is polled; the thread returns if that
\* left it in ShutDown, else it goes on to mine
MinerPoll ==
  /\ miner_pc = "loop"
  /\ operating_state.kind = "Run"
  /\ LET polled == IF control_chan # <<>> THEN handle_control_signal(Head(control_chan))
                   ELSE operating_state
     IN  /\ operating_state' = polled
         /\ miner_pc' = IF returns_after_poll(polled) THEN "returned" ELSE "mine"
  /\ control_chan' = IF control_chan # <<>> THEN Tail(control_chan) ELSE control_chan
  /\ sent' = <<>>
  /\ UNCHANGED <<lock_vars, net_vars, novelty, current_block, engine_vars, ledger,
                 returned, merkle_vars, gossip_vars>>

\* lines 130-132: without a candidate, create_next_block(rand::random())
MinerAssemble ==
  /\ miner_pc = "mine"
  /\ \/ /\ current_block = <<>>
        /\ \E starting_nonce \in 0 .. MaxNonce, pending \in mempool_transactions(Self) :
             current_block' = create_next_block(Self, starting_nonce, pending, now)
     \/ /\ current_block # <<>>
        /\ current_block' = current_block
  /\ miner_pc' = "pow"
  /\ sent' = <<>>
  /\ UNCHANGED <<lock_vars, net_vars, novelty, operating_state, control_chan,
                 engine_vars, ledger, returned,
                 merkle_vars, gossip_vars>>

\* lines 133-161: the timestamp is refreshed and the hash compared with the
\* difficulty; a hash that passes is committed and announced, else the nonce
\* goes up by one (a u32, here of the width of the nonces of the model)
PowOfHash(block, hash) ==
  \/ /\ hash <= block.header.difficulty
     /\ SetSelf(insert_block_with_validation(Self, block).bc)
     /\ current_block' = <<>>
     /\ sent' = <<server_broadcast(Message("NewBlockHashes", <<hash>>))>>
  \/ /\ hash > block.header.difficulty
     /\ current_block' = <<[block EXCEPT !.header.nonce = (@ + 1) % (MaxNonce + 1)]>>
     /\ sent' = <<>>
     /\ UNCHANGED engine_vars

\* lines 133-140: the candidate with the timestamp refreshed, and its hash
PowOfBlock(block) == PowOfHash(block, BlockHash(block))

\* the proof-of-work part of one turn of the loop; nothing to do without a
\* candidate
MinerPow ==
  /\ miner_pc = "pow"
  /\ \/ /\ current_block = <<>>
        /\ sent' = <<>>
        /\ UNCHANGED <<current_block, engine_vars>>
     \/ /\ current_block # <<>>
        /\ PowOfBlock([current_block[1] EXCEPT !.header.timestamp = now])
  /\ miner_pc' = "loop"
  /\ UNCHANGED <<lock_vars, net_vars, novelty, operating_state, control_chan, ledger,
                 returned, merkle_vars,
                 gossip_vars>>

\* the steps of the miner thread
MinerNext == MinerPaused \/ MinerShutDown \/ MinerPoll \/ MinerAssemble \/ MinerPow

NextMiner ==
  \/ ReceiveWhileMining
  \/ SendControl
  \/ MinerPaused
  \/ MinerShutDown
  \/ MinerPoll
  \/ MinerAssemble
  \/ MinerPow

SpecMiner == Init /\ [][NextMiner]_vars

\* what peers send in the runs that are followed to the end of the miner
\* thread: the block the miner can build on, and the pool
ShutdownPayloads ==
  {Message("Blocks", <<family_root>>), Message("Transactions", PoolForwards)}

ReceiveBeforeShutdown == Receive(ShutdownPayloads)

NextShutdown ==
  \/ ReceiveBeforeShutdown
  \/ SendControl
  \/ MinerPaused
  \/ MinerShutDown
  \/ MinerPoll
  \/ MinerAssemble
  \/ MinerPow

\* A step of the miner thread, told by where it stands and by the control
\* channel: in NextShutdown the steps from "mine" to "pow" that leave the
\* channel alone are those of MinerAssemble, the steps from "pow" to "loop"
\* those of MinerPow, and both can always be taken.  Every step of the miner
\* changes miner_pc or the channel.
MinerTurn ==
  \/ MinerPaused
  \/ MinerShutDown
  \/ MinerPoll
  \/ miner_pc = "mine" /\ miner_pc' = "pow" /\ control_chan' = control_chan
  \/ miner_pc = "pow" /\ miner_pc' = "loop" /\ control_chan' = control_chan

\* the miner thread is scheduled as long as it can take a step, and the
\* engine lock it waits for is always released again
SpecMinerFair ==
  Init /\ [][NextShutdown]_vars /\ WF_<<miner_pc, control_chan>>(MinerTurn)

(***************************************************************************)
(* The node with its gossip workers and its transaction generator: the     *)
(* peer transport fills the queue, the workers empty it                    *)
(***************************************************************************)
\* a child of family_root written by a clock ahead of this node's
family_late ==
  [header |-> [parent |-> BlockHash(family_root), nonce |-> 1, difficulty |-> MaxHash,
               timestamp |-> FutureTimestamp, merkle_root |-> ZeroHash],
   content |-> [transactions |-> <<>>]]

\* bytes that are the serialisation of no Message
garbage == [kind |-> "garbage", body |-> <<>>]

\* What peers put on the wire: bytes of no Message, a Ping, announcements of
\* and requests for blocks and transactions this node may or may not have,
\* blocks before their parents, with a replay and with a later timestamp,
\* and transactions with a rejected one and a repeated one among them.
GossipPayloads ==
  {garbage,
   Message("Ping", "0"),
   Message("Pong", "0"),
   Message("NewBlockHashes", <<BlockHash(family_a), genesis_hash, BlockHash(family_root)>>),
   Message("GetBlocks", <<BlockHash(family_a), genesis_hash>>),
   Message("Blocks", <<family_a>>),
   Message("Blocks", <<family_a_replay, family_root>>),
   Message("Blocks", <<family_root, family_late>>),
   Message("NewTransactionHashes", <<TxHash(tx_pay_0), TxHash(tx_not_owner)>>),
   Message("GetTransactions", <<TxHash(tx_not_owner), TxHash(tx_pay_0)>>),
   Message("Transactions", <<tx_pay_0, tx_not_owner, tx_pay_0, tx_overdraft>>)}

\* the blocks a payload carries
blocks_of(payload) ==
  IF payload.kind = "Blocks" THEN {payload.body[i] : i \in 1 .. Len(payload.body)} ELSE {}

\* The peer transport puts a received payload on the queue of the workers
\* (msg_chan of worker.rs line 53).  Peers send no payload that is still in
\* the queue and no block this node holds in its orphanage.
PeerSend ==
  /\ Len(msg_chan) < MaxQueue
  /\ \E payload \in GossipPayloads :
       /\ \A i \in 1 .. Len(msg_chan) : msg_chan[i] # payload
       /\ blocks_of(payload) \cap OrphansOf(orphanage) = {}
       /\ msg_chan' = Append(msg_chan, payload)
  /\ sent' = <<>>
  /\ UNCHANGED <<lock_vars, net_vars, novelty, engine_vars, workers, next_sender_acc,
                 ledger, returned, merkle_vars,
                 miner_vars>>

\* worker_loop, one turn: a running worker takes the payload at the head of
\* the queue and handles it; a panic ends the thread.  The build has overflow
\* checks or has none.
WorkerLoop ==
  /\ workers > 0
  /\ msg_chan # <<>>
  /\ \E overflow_checks \in BOOLEAN :
       Handled(handle_payload(Self, Head(msg_chan), overflow_checks))
  /\ msg_chan' = Tail(msg_chan)
  /\ UNCHANGED <<lock_vars, net_vars, novelty, next_sender_acc, ledger, returned,
                 merkle_vars, miner_vars>>

\* the receivers rand::random::<u8>() % 10 draws: the sender itself or not
Receivers == {0, 1}

\* lines 88-92: the generated transaction is inserted and its hash broadcast
InsertAndBroadcast(transaction) ==
  /\ SetSelf(insert_transaction_with_validation(Self, transaction).bc)
  /\ sent' = <<server_broadcast(Message("NewTransactionHashes", <<TxHash(transaction)>>))>>

\* generation_loop, one trigger (lines 54-95)
Generate ==
  /\ next_sender_acc < MaxGenerated
  /\ \E receiver_acc_num \in Receivers, valid \in BOOLEAN :
       InsertAndBroadcast(
         generated_transaction(Self, next_sender_acc, receiver_acc_num, valid))
  /\ next_sender_acc' = (next_sender_acc + 1) % 10
  /\ UNCHANGED <<lock_vars, net_vars, novelty, msg_chan, workers, ledger, returned,
                 merkle_vars, miner_vars>>

NextGossip == PeerSend \/ WorkerLoop \/ Generate

SpecGossip == Init /\ [][NextGossip]_vars

(***************************************************************************)
(* Properties                                                              *)
(***************************************************************************)
Hashes == DOMAIN hash_to_block
NonGenesis == Hashes \ {BlockHash(genesis)}
Height(h) == hash_to_block[h].height
ParentOf(h) == hash_to_block[h].block.header.parent
\* the blocks a step adds
NewBlocks == DOMAIN hash_to_block' \ DOMAIN hash_to_block

\* C1: after any sequence of validated inserts, tip is a key of blocks and no
\* stored block is higher than the block stored for tip.
C1_TipMaximal ==
  /\ tip \in Hashes
  /\ \A h \in Hashes : Height(h) <= Height(tip)

\* C1 witness: inserts built a branch of two blocks below the height of the
\* tip next to the best chain (two blocks share a height below the tip's).
C1_Witness ==
  /\ C1_TipMaximal
  /\ \E h, g \in Hashes : h # g /\ Height(h) = Height(g) /\ Height(h) < Height(tip)

\* C2: fork choice is longest chain with first-seen tie-break.  A call moves
\* the tip only to a block it added that is strictly higher than the old tip
\* and at least as high as everything else it added; a call that adds no
\* block higher than the tip (a tie, a lower side block, a rejection, a
\* buffered orphan, a transaction insert) leaves the tip alone; a block that
\* extends the tip and is the only block added becomes the tip.
C2_ForkChoiceStep ==
  LET NewHeight(h) == hash_to_block'[h].height
      taller == {h \in NewBlocks : NewHeight(h) > Height(tip)}
  IN  /\ taller = {} => tip' = tip
      /\ taller # {} =>
           /\ tip' \in taller
           /\ \A h \in NewBlocks : NewHeight(h) <= NewHeight(tip')
      /\ \A h \in NewBlocks :
           (NewBlocks = {h} /\ hash_to_block'[h].block.header.parent = tip) => tip' = h

C2_ForkChoice == [][C2_ForkChoiceStep]_vars

\* C2 witness: a block as high as the tip stands on another branch and the
\* tip has a sibling of its parent below it, so a tie was seen and resolved.
C2_Witness ==
  /\ Height(tip) >= 2
  /\ \E h \in Hashes : h # tip /\ Height(h) = Height(tip)

\* C3: genesis has height 0 and every other stored block has its parent
\* stored, one level below it.
C3_HeightLaw ==
  /\ BlockHash(genesis) \in Hashes
  /\ Height(BlockHash(genesis)) = 0
  /\ \A h \in NonGenesis :
       /\ ParentOf(h) \in Hashes
       /\ Height(h) = Height(ParentOf(h)) + 1

\* C3 witness: a chain of three blocks above genesis is stored.
C3_Witness == \E h \in NonGenesis : Height(h) = 3 /\ Height(ParentOf(h)) = 2

\* C4: the state stored with every non-genesis block is the result of
\* applying the block's raw transactions, in order, to the state stored with
\* its parent, and that application succeeded; genesis carries the ICO state.
C4_StateComposition ==
  /\ hash_to_block[BlockHash(genesis)].state = ico
  /\ \A h \in NonGenesis :
       /\ ParentOf(h) \in Hashes
       /\ LET applied == update_with_transactions(hash_to_block[ParentOf(h)].state,
                                                  RawTransactions(hash_to_block[h].block))
          IN  applied.is_some /\ applied.state = hash_to_block[h].state

\* C4 witness: a block with two transactions is stored on a non-genesis
\* parent, with a state that differs from its parent's.
C4_Witness ==
  \E h \in NonGenesis :
    /\ Height(h) >= 2
    /\ Len(hash_to_block[h].block.content.transactions) = 2
    /\ hash_to_block[h].state # hash_to_block[ParentOf(h)].state

\* signature verifies under pub_key and the key is the sender's
Authentic(transaction) ==
  /\ transaction.signature.signer = transaction.pub_key
  /\ transaction.signature.message = transaction.raw_transaction
  /\ from_pubkey(transaction.pub_key) = transaction.raw_transaction.from_addr

\* Check of a raw transaction as the single next transaction of its sender
SingleNextValid(state, raw) ==
  /\ raw.from_addr \in DOMAIN state
  /\ state[raw.from_addr].nonce = raw.nonce
  /\ state[raw.from_addr].balance >= raw.value

\* C5: after any engine call, every mempool transaction is signature-authentic
\* and passes Check against the state of the tip, and is filed under its hash.
C5_MempoolSound ==
  \A h \in DOMAIN mempool :
    /\ h = TxHash(mempool[h])
    /\ Authentic(mempool[h])
    /\ SingleNextValid(hash_to_block[tip].state, mempool[h].raw_transaction)

\* C5 witness: a transaction is pending while the tip is a block above a
\* branch that holds transactions of the same sender.
C5_Witness ==
  /\ DOMAIN mempool # {}
  /\ Height(tip) >= 2
  /\ \E h \in NonGenesis : hash_to_block[h].block.content.transactions # <<>>

\* C6: the hash of every non-genesis stored block is at most the difficulty
\* in the header of its parent.
C6_PowAgainstParent ==
  \A h \in NonGenesis :
    /\ ParentOf(h) \in Hashes
    /\ h <= hash_to_block[ParentOf(h)].block.header.difficulty

\* C6 witness: a stored block has a non-zero hash, above the difficulty its
\* own header carries.
C6_Witness ==
  \E h \in NonGenesis : h > hash_to_block[h].block.header.difficulty

\* C7 (as claimed): the hash of every non-genesis stored block is at most the
\* difficulty carried in the block's own header.
C7_PowAgainstOwnHeader ==
  \A h \in NonGenesis : h <= hash_to_block[h].block.header.difficulty

\* C8 (as claimed): every stored block carries the genesis difficulty, so the
\* difficulty required of a new block is always the genesis difficulty.
C8_DifficultyFixed ==
  \A h \in Hashes :
    hash_to_block[h].block.header.difficulty = genesis.header.difficulty

\* C9: a block that a call has added is added once: in every state, calling
\* insert_block_with_validation again with a block stored by an earlier call
\* returns an empty list and leaves blocks, tip, mempool (and the rest of the
\* engine) exactly as they were.
C9_Idempotent ==
  \A h \in NonGenesis :
    LET second == insert_block_with_validation(Self, hash_to_block[h].block)
    IN  /\ second.added_blocks = <<>>
        /\ second.bc.hash_to_block = hash_to_block
        /\ second.bc.tip = tip
        /\ second.bc.mempool = mempool
        /\ second.bc = Self

\* C9 witness: earlier calls have added a block that is not the tip and one
\* with transactions, and a transaction is pending, so that a second addition
\* of a stored block would show in blocks, tip or mempool.
C9_Witness ==
  /\ \E h \in NonGenesis : h # tip /\ Height(h) = Height(tip)
  /\ \E h \in NonGenesis : hash_to_block[h].block.content.transactions # <<>>
  /\ DOMAIN mempool # {}

\* C10: after any engine call, no block in the orphanage has its parent in
\* blocks; every orphan is filed under its parent's hash.
C10_OrphanParentsUnknown ==
  \A p \in DOMAIN orphanage :
    /\ p \notin Hashes
    /\ orphanage[p] # <<>>
    /\ \A i \in 1 .. Len(orphanage[p]) : orphanage[p][i].header.parent = p

\* C10 witness: an orphan is waiting in the orphanage for a parent that a
\* later call can add together with it.
C10_Witness ==
  /\ DOMAIN orphanage # {}
  /\ \E block \in BlockChoices(Self) :
       Len(insert_block_with_validation(Self, block).added_blocks) >= 2

\* the hashes of the blocks held in the orphan lists
OrphanHashes == {BlockHash(b) : b \in OrphansOf(orphanage)}

\* C11: after any engine call, no block hash is both a key of blocks and the
\* hash of a block held in an orphan list.
C11_OrphanExclusive == OrphanHashes \cap Hashes = {}

\* C11 witness: a block waits in an orphan list, not stored, while the block
\* it waits for is on offer with a stored parent.
C11_Witness ==
  /\ OrphanHashes # {}
  /\ \E p \in DOMAIN orphanage : \E b \in BlockChoices(Self) :
       BlockHash(b) = p /\ b.header.parent \in Hashes

\* the blocks of the family a peer can still send
Deliverable ==
  {b \in Family : BlockHash(b) \notin Hashes /\ b \notin OrphansOf(orphanage)}

\* the hashes of list up to position n
Prefix(list, n) == {list[i] : i \in 1 .. n}

\* the place of the first block with hash h in an orphan list
ArrivalPlace(list, h) ==
  CHOOSE k \in 1 .. Len(list) :
    /\ BlockHash(list[k]) = h
    /\ \A j \in 1 .. k - 1 : BlockHash(list[j]) # h

\* x is a proper descendant of y in the tree blocks
IsDescendant(blocks, x, y) ==
  LET RECURSIVE Ancestors(_)
      Ancestors(h) ==
        IF h = BlockHash(genesis) \/ h \notin DOMAIN blocks THEN {}
        ELSE {blocks[h].block.header.parent} \cup Ancestors(blocks[h].block.header.parent)
  IN  y \in Ancestors(x)

\* block is acceptable as a child of the stored entry parent
ValidOn(parent, block) ==
  /\ BlockHash(block) <= parent.block.header.difficulty
  /\ update_with_transactions(parent.state, RawTransactions(block)).is_some

\* C12, for one call: what insert_block_with_validation(block) returns and
\* leaves behind in the current state
C12_Call(block) ==
  LET r == insert_block_with_validation(Self, block)
      L == r.added_blocks
      post == r.bc.hash_to_block
      parent == block.header.parent
  IN  \* an unknown parent: buffered at the end of the parent's list, nothing
      \* returned, blocks and tip as before
      /\ parent \notin Hashes =>
           /\ L = <<>>
           /\ post = hash_to_block
           /\ r.bc.tip = tip
           /\ DOMAIN r.bc.orphanage = DOMAIN orphanage \cup {parent}
           /\ r.bc.orphanage[parent] =
                (IF parent \in DOMAIN orphanage THEN orphanage[parent] ELSE <<>>) \o <<block>>
           /\ \A p \in DOMAIN orphanage \ {parent} : r.bc.orphanage[p] = orphanage[p]
      \* the returned hashes are the blocks the call stored, each once
      /\ Prefix(L, Len(L)) = DOMAIN post \ Hashes
      /\ Cardinality(Prefix(L, Len(L))) = Len(L)
      \* the block itself comes first, every other one after its parent
      /\ L # <<>> => L[1] = BlockHash(block)
      /\ \A i \in 2 .. Len(L) : post[L[i]].block.header.parent \in Prefix(L, i - 1)
      \* orphans of one parent come in their arrival order
      /\ \A i, j \in 2 .. Len(L) :
           (i < j /\ post[L[i]].block.header.parent = post[L[j]].block.header.parent) =>
             LET list == orphanage[post[L[i]].block.header.parent]
             IN  ArrivalPlace(list, L[i]) < ArrivalPlace(list, L[j])
      \* each block is followed immediately by its own promoted descendants
      /\ \A i, j, k \in 1 .. Len(L) :
           (i < j /\ j < k /\ IsDescendant(post, L[k], L[i])) => IsDescendant(post, L[j], L[i])
      \* every orphan that waited for a stored block was attempted: it is
      \* stored if it is valid on its parent, and it waits no longer
      /\ \A p \in DOMAIN orphanage :
           p \in DOMAIN post =>
             /\ p \notin DOMAIN r.bc.orphanage
             /\ \A n \in 1 .. Len(orphanage[p]) :
                  ValidOn(post[p], orphanage[p][n]) => BlockHash(orphanage[p][n]) \in DOMAIN post

\* C12: orphan promotion.  A block with an unknown parent is buffered and
\* nothing is returned; when the awaited block is added the call returns its
\* hash followed by the hashes of the promoted orphans, in arrival order,
\* each followed immediately by its own promoted descendants, and all of them
\* are stored.
C12_OrphanPromotion == \A block \in Deliverable : C12_Call(block)

\* C12 witness: two children of the awaited block and a grandchild wait in the
\* orphanage, and the arrival of the awaited block returns all four hashes,
\* the grandchild between the two children.
C12_Witness ==
  /\ family_root \in Deliverable
  /\ ZeroHash \in DOMAIN orphanage
  /\ orphanage[ZeroHash] = <<family_a, family_b>>
  /\ insert_block_with_validation(Self, family_root).added_blocks =
       <<BlockHash(family_root), BlockHash(family_a), BlockHash(family_a_child),
         BlockHash(family_b)>>

\* the blocks on offer that are not stored and whose parent is stored
OfferedOnStored ==
  {b \in BlockChoices(Self) : BlockHash(b) \notin Hashes /\ b.header.parent \in Hashes}

\* block fails the proof-of-work check against its stored parent
FailsPow(block) ==
  BlockHash(block) > hash_to_block[block.header.parent].block.header.difficulty

\* the transactions of block fail Apply-sequence on the state of its parent
FailsState(block) ==
  ~update_with_transactions(hash_to_block[block.header.parent].state,
                            RawTransactions(block)).is_some

\* C13: a block with a stored parent that fails the proof-of-work check or
\* whose transactions fail on the parent's state is rejected silently: the
\* call returns an empty list and blocks, tip, orphanage and mempool (the
\* whole engine) are unchanged.
C13_SilentReject ==
  \A block \in OfferedOnStored :
    (FailsPow(block) \/ FailsState(block)) =>
      LET r == insert_block_with_validation(Self, block)
      IN  /\ r.added_blocks = <<>>
          /\ r.bc.hash_to_block = hash_to_block
          /\ r.bc.tip = tip
          /\ r.bc.orphanage = orphanage
          /\ r.bc.mempool = mempool

\* C13 witness: with a transaction pending, a block that fails only the
\* proof-of-work check and a block that fails only on its transactions (which
\* include the pending one) are both on offer.
C13_Witness ==
  /\ \E block \in OfferedOnStored : FailsPow(block) /\ ~FailsState(block)
  /\ \E block \in OfferedOnStored :
       /\ ~FailsPow(block) /\ FailsState(block)
       /\ \E i \in 1 .. Len(block.content.transactions) :
            TxHash(block.content.transactions[i]) \in DOMAIN mempool

\* C14, for one call: the return value of
\* insert_transaction_with_validation(transaction) and the engine it leaves
C14_Call(transaction) ==
  LET r == insert_transaction_with_validation(Self, transaction)
      hash == TxHash(transaction)
      newly_accepted ==
        /\ hash \notin DOMAIN mempool
        /\ Authentic(transaction)
        /\ SingleNextValid(hash_to_block[tip].state, transaction.raw_transaction)
  IN  /\ r.accepted = newly_accepted
      /\ r.accepted =>
           /\ DOMAIN r.bc.mempool = DOMAIN mempool \cup {hash}
           /\ r.bc.mempool[hash] = transaction
           /\ \A h \in DOMAIN mempool : r.bc.mempool[h] = mempool[h]
      /\ ~r.accepted => r.bc.mempool = mempool
      /\ r.bc.hash_to_block = hash_to_block
      /\ r.bc.tip = tip
      /\ r.bc.orphanage = orphanage
      /\ from_pubkey(transaction.pub_key) # transaction.raw_transaction.from_addr => ~r.accepted

\* C14: insert_transaction_with_validation returns true iff the hash was not
\* in the mempool, the transaction is signature-authentic and passes Check
\* on the state of the tip; on true the mempool gains exactly the
\* transaction, on false it is unchanged; blocks, tip and orphanage are never
\* touched; a transaction whose key is not the sender's is rejected even with
\* a signature that verifies.
C14_InsertTransactionContract == \A transaction \in Transactions : C14_Call(transaction)

\* C14 witness: with a block stored and a transaction pending (so a repeat is
\* on offer), another transaction would be accepted, and the transaction
\* signed with a key that is not the sender's verifies under that key, is not
\* pending and passes Check on the state of the tip.
C14_Witness ==
  /\ NonGenesis # {}
  /\ \E t \in Transactions : TxHash(t) \in DOMAIN mempool
  /\ \E t \in Transactions : insert_transaction_with_validation(Self, t).accepted
  /\ valid_signature(tx_not_owner)
  /\ ~signed_by_owner(tx_not_owner)
  /\ TxHash(tx_not_owner) \notin DOMAIN mempool
  /\ check_transaction_validity(hash_to_block[tip].state, tx_not_owner.raw_transaction)

\* the hashes of the transactions contained in a block
IncludedIn(block) ==
  {TxHash(block.content.transactions[i]) : i \in 1 .. Len(block.content.transactions)}

\* C15: mempool drain on inclusion.  When a call of
\* insert_block_with_validation has added a block, no transaction contained
\* in that block is in the mempool when the call returns.
C15_DrainStep ==
  \A h \in NewBlocks : IncludedIn(hash_to_block'[h].block) \cap DOMAIN mempool' = {}

C15_DrainOnInclusion == [][C15_DrainStep]_vars

\* C15 witness: a transaction is pending and a valid block that contains it is
\* on offer on a branch that will not move the tip, so that only the drain
\* can take the transaction out of the mempool.
C15_Witness ==
  \E block \in OfferedOnStored :
    /\ ~FailsPow(block) /\ ~FailsState(block)
    /\ IncludedIn(block) \cap DOMAIN mempool # {}
    /\ Height(block.header.parent) + 1 <= Height(tip)

\* the hashes of the transactions contained in the blocks a step adds
IncludedInNew == UNION {IncludedIn(hash_to_block'[h].block) : h \in NewBlocks}

\* C16 (as claimed): whenever a call of insert_block_with_validation changes
\* the tip, the mempool on return consists of exactly the entries that were
\* in the mempool before the call, are not contained in a block the call
\* added, and pass Check on the state of the new tip.
C16_PruneStep ==
  tip' # tip =>
    LET kept == {h \in DOMAIN mempool :
                   /\ h \notin IncludedInNew
                   /\ SingleNextValid(hash_to_block'[tip'].state, mempool[h].raw_transaction)}
    IN  /\ DOMAIN mempool' = kept
        /\ \A h \in kept : mempool'[h] = mempool[h]

C16_PruneOnTipChange == [][C16_PruneStep]_vars

\* after the step, block hash b lies on the chain from genesis to the tip
OnBestChainAfter(b) == b = tip' \/ IsDescendant(hash_to_block', tip', b)

\* a transaction enters the mempool only through a successful validated insert
C17_EnterStep ==
  \A h \in DOMAIN mempool' \ DOMAIN mempool :
    /\ UNCHANGED <<hash_to_block, tip, orphanage>>
    /\ DOMAIN mempool' = DOMAIN mempool \cup {h}
    /\ h = TxHash(mempool'[h])
    /\ Authentic(mempool'[h])
    /\ SingleNextValid(hash_to_block[tip].state, mempool'[h].raw_transaction)

\* a transaction leaves the mempool only when an added block on the best chain
\* contains it or when the tip changed and it is invalid on the new tip
C17_LeaveStep ==
  \A h \in DOMAIN mempool \ DOMAIN mempool' :
    \/ \E b \in NewBlocks : h \in IncludedIn(hash_to_block'[b].block) /\ OnBestChainAfter(b)
    \/ /\ tip' # tip
       /\ ~SingleNextValid(hash_to_block'[tip'].state, mempool[h].raw_transaction)

\* C17 (as claimed): mempool entry lifecycle.  An entry enters only through a
\* successful validated insert and leaves only when it is included in an
\* added block on the best chain or pruned as invalid on the state of the tip
\* after a tip change; no other step removes or alters an entry.
C17_LifecycleStep ==
  /\ C17_EnterStep
  /\ C17_LeaveStep
  /\ \A h \in DOMAIN mempool \cap DOMAIN mempool' : mempool'[h] = mempool[h]

C17_MempoolLifecycle == [][C17_LifecycleStep]_vars

\* C18: a block enters blocks once and never leaves.  Across every engine
\* call the key set of blocks only grows and the (block, height, state)
\* stored for a hash is never changed.
C18_PermanenceStep ==
  /\ DOMAIN hash_to_block \subseteq DOMAIN hash_to_block'
  /\ \A h \in DOMAIN hash_to_block : hash_to_block'[h] = hash_to_block[h]

C18_BlockPermanence == [][C18_PermanenceStep]_vars

\* C18 witness: a block is on offer that has the hash of a stored block and
\* other transactions (the hash covers the header only), next to a tree of
\* three stored blocks.
C18_Witness ==
  /\ Cardinality(NonGenesis) >= 3
  /\ \E block \in BlockChoices(Self) :
       /\ BlockHash(block) \in NonGenesis
       /\ block # hash_to_block[BlockHash(block)].block

\* the account of address a in state s, as the credit of update_in_place sees
\* it: the account itself, or the one or_insert_with creates
AccountOrNew(s, a) == IF a \in DOMAIN s THEN s[a] ELSE [nonce |-> 0, balance |-> 0]

\* C19, for one call of update_in_place(t) on state s
C19_Call(s, t) ==
  LET r == update_in_place(s, t)
      from == t.from_addr
      to == t.to_addr
  IN  /\ r.ok = SingleNextValid(s, t)
      /\ ~r.ok => r.state = s
      /\ r.ok =>
           /\ DOMAIN r.state = DOMAIN s \cup {to}
           /\ r.state[from].nonce = s[from].nonce + 1
           /\ from # to =>
                /\ r.state[from].balance = s[from].balance - t.value
                /\ r.state[to].balance = AccountOrNew(s, to).balance + t.value
                /\ r.state[to].nonce = AccountOrNew(s, to).nonce
           /\ from = to => r.state[from].balance = s[from].balance
           /\ \A a \in DOMAIN s \ {from, to} : r.state[a] = s[a]

\* C19: Apply-in-place.  If Check fails (sender absent, nonce mismatch or
\* balance < value) update_in_place returns false and the state is unchanged;
\* otherwise it returns true, the sender's nonce grows by 1, the sender pays
\* value, the receiver (created as {nonce 0, balance 0} if absent) gets value,
\* no other account changes, and a self-transfer keeps the balance and
\* advances the nonce.
C19_ApplyInPlace == \A t \in RawChoices : C19_Call(ledger, t)

\* C19 witness: calls have changed the ledger, and in it one offered
\* transaction fails for each of the three reasons, a self-transfer applies,
\* and a transfer to an account that does not exist applies.
C19_Witness ==
  /\ ledger # ico
  /\ \E t \in RawChoices : t.from_addr \notin DOMAIN ledger
  /\ \E t \in RawChoices :
       t.from_addr \in DOMAIN ledger /\ ledger[t.from_addr].nonce # t.nonce
  /\ \E t \in RawChoices :
       /\ t.from_addr \in DOMAIN ledger /\ ledger[t.from_addr].nonce = t.nonce
       /\ ledger[t.from_addr].balance < t.value
  /\ \E t \in RawChoices : t.from_addr = t.to_addr /\ update_in_place(ledger, t).ok
  /\ \E t \in RawChoices : t.to_addr \notin DOMAIN ledger /\ update_in_place(ledger, t).ok

\* the state after Apply-in-place of the first n transactions of txs, one
\* after the other, starting from s
RECURSIVE StateAfterPrefix(_, _, _)
StateAfterPrefix(s, txs, n) ==
  IF n = 0 THEN s
  ELSE update_in_place(StateAfterPrefix(s, txs, n - 1), txs[n]).state

\* every transaction of txs applies on the state the ones before it produce
AllApply(s, txs) ==
  \A n \in 1 .. Len(txs) : update_in_place(StateAfterPrefix(s, txs, n - 1), txs[n]).ok

\* C20, for one call of update_with_transactions(txs) on state s
C20_Call(s, txs) ==
  LET r == update_with_transactions(s, txs)
  IN  /\ r.is_some = AllApply(s, txs)
      /\ r.is_some => r.state = StateAfterPrefix(s, txs, Len(txs))
      \* two transactions of one sender: the same nonce twice is rejected,
      \* consecutive nonces that the balance covers are accepted
      /\ (Len(txs) = 2 /\ txs[1].from_addr = txs[2].from_addr /\ txs[1].nonce = txs[2].nonce)
           => ~r.is_some
      /\ ( /\ Len(txs) = 2 /\ txs[1].from_addr = txs[2].from_addr
           /\ txs[2].nonce = txs[1].nonce + 1
           /\ txs[1].from_addr \in DOMAIN s
           /\ s[txs[1].from_addr].nonce = txs[1].nonce
           /\ s[txs[1].from_addr].balance >= txs[1].value + txs[2].value )
           => r.is_some

\* a call of update_with_transactions leaves the state it is called on, and
\* what it returns is the Option that C20_Call describes for some list
C20_CallStep ==
  returned'.op = "update_with_transactions" =>
    /\ ledger' = ledger
    /\ \E txs \in TxSeqs :
         /\ returned'.ok = AllApply(ledger, txs)
         /\ returned'.ok => returned'.state = StateAfterPrefix(ledger, txs, Len(txs))

\* C20: Apply-sequence.  update_with_transactions never modifies the state it
\* is called on; it returns no state if any transaction fails Apply-in-place
\* on the state produced by the transactions before it, and otherwise the
\* state obtained by applying all of them in order; two transactions of one
\* sender with the same nonce are rejected, with consecutive nonces accepted.
C20_Step ==
  /\ \A txs \in TxSeqs : C20_Call(ledger, txs)
  /\ C20_CallStep

C20_ApplySequence == [][C20_Step]_vars

\* C20 witness: the last call was update_with_transactions and returned a
\* state other than the one it was called on, and on that state a list of
\* two transactions with consecutive nonces is accepted and a list with the
\* same transaction twice is rejected on its second transaction only.
C20_Witness ==
  /\ returned.op = "update_with_transactions" /\ returned.ok /\ returned.state # ledger
  /\ \E txs \in TxSeqs :
       /\ Len(txs) = 2 /\ txs[1].from_addr = txs[2].from_addr
       /\ txs[2].nonce = txs[1].nonce + 1
       /\ update_with_transactions(ledger, txs).is_some
  /\ \E txs \in TxSeqs :
       /\ Len(txs) = 2 /\ txs[1] = txs[2]
       /\ update_in_place(ledger, txs[1]).ok
       /\ ~update_with_transactions(ledger, txs).is_some

(***************************************************************************)
(* C21  Merkle round trip: for the tree built from any non-empty list of   *)
(* items and every index i below their number, verify(root, hash of item   *)
(* i, proof(i), i, n) is true.                                             *)
(***************************************************************************)
C21_MerkleRoundTrip ==
  \A index \in 0 .. Len(merkle_data) - 1 :
    verify(root(merkle_tree), ItemHash(merkle_data[index + 1]),
           proof(merkle_tree, index), index, Len(merkle_data))

(***************************************************************************)
(* C22  Miner control state machine: the miner starts Paused; while Paused *)
(* its only step is to take a control signal, with no mining and no engine *)
(* access; Start(lambda) taken in Paused or Run puts it in Run(lambda),    *)
(* Exit puts it in ShutDown; nothing leads back to Paused and ShutDown is  *)
(* never left.                                                             *)
(***************************************************************************)
\* the step takes the first signal off the control channel
TakesSignal == control_chan # <<>> /\ control_chan' = Tail(control_chan)

\* the step is one of the miner thread
MinerStep ==
  \/ TakesSignal
  \/ miner_pc' # miner_pc
  \/ operating_state' # operating_state
  \/ current_block' # current_block

C22_Step ==
  /\ operating_state.kind = "Paused" /\ MinerStep =>
       /\ TakesSignal
       /\ miner_pc' = miner_pc
       /\ current_block' = current_block
       /\ engine_vars' = engine_vars
       /\ sent' = <<>>
  /\ TakesSignal =>
       /\ operating_state.kind \in {"Paused", "Run"}
       /\ Head(control_chan).kind = "Start" =>
            /\ operating_state'.kind = "Run"
            /\ operating_state'.lambda = Head(control_chan).lambda
       /\ Head(control_chan).kind = "Exit" => operating_state'.kind = "ShutDown"
  /\ operating_state' # operating_state => TakesSignal
  /\ operating_state'.kind = "Paused" => operating_state.kind = "Paused"
  /\ operating_state.kind = "ShutDown" => operating_state'.kind = "ShutDown"

C22_ControlStateMachine ==
  operating_state.kind = "Paused" /\ [][C22_Step]_vars

\* the miner runs with the second lambda, a candidate in hand and a further
\* signal waiting
C22_Witness ==
  /\ operating_state = Run(1)
  /\ current_block # <<>>
  /\ control_chan # <<>>

(***************************************************************************)
(* C23  Miner shutdown: once Exit is in the control channel the miner      *)
(* thread eventually returns, whatever Start signals are queued before it  *)
(* and whether it is Paused or Run; in the iteration that takes Exit and   *)
(* ever after, the miner does no mining step, no insert and no broadcast.  *)
(***************************************************************************)
ExitQueued == \E i \in 1 .. Len(control_chan) : control_chan[i] = Exit

C23_Step ==
  operating_state'.kind = "ShutDown" /\ MinerStep =>
    /\ current_block' = current_block
    /\ engine_vars' = engine_vars
    /\ sent' = <<>>
    /\ miner_pc' \in {"loop", "returned"}

C23_MinerShutdown ==
  /\ [][C23_Step]_vars
  /\ ExitQueued ~> (miner_pc = "returned")

\* the miner has returned after it worked on a candidate
C23_Witness ==
  /\ miner_pc = "returned"
  /\ current_block # <<>>

(***************************************************************************)
(* C24  When the miner commits a candidate whose hash passes, it           *)
(* broadcasts NewBlockHashes([hash]) only if insert_block_with_validation  *)
(* newly added the block; a commit that adds nothing is not broadcast.     *)
(***************************************************************************)
\* the step is the commit of the candidate
Commits ==
  /\ miner_pc = "pow"
  /\ miner_pc' = "loop"
  /\ current_block # <<>>
  /\ current_block' = <<>>

C24_Step ==
  Commits =>
    LET hash == BlockHash(current_block[1])
    IN  /\ sent' # <<>> =>
             sent' = <<server_broadcast(Message("NewBlockHashes", <<hash>>))>>
        /\ sent' # <<>> => hash \in DOMAIN hash_to_block' \ DOMAIN hash_to_block

C24_BroadcastOnlyAccepted == [][C24_Step]_vars

(***************************************************************************)
(* C25  Miner commit under concurrent state change: if, after the miner    *)
(* assembled its candidate on the tip T and before it commits it, another  *)
(* block holding some of the candidate's transactions was accepted, the    *)
(* commit returns no novelty: the candidate is not added to the blocks and *)
(* no NewBlockHashes is broadcast for it.  (T was the tip at assembly, so  *)
(* every stored child of T was accepted after it.)                         *)
(***************************************************************************)
Overlaps(block, other) ==
  \E i \in 1 .. Len(block.content.transactions),
     j \in 1 .. Len(other.content.transactions) :
    block.content.transactions[i] = other.content.transactions[j]

C25_Step ==
  /\ Commits
  /\ \E h \in DOMAIN hash_to_block :
       /\ h # BlockHash(current_block[1])
       /\ hash_to_block[h].block.header.parent = current_block[1].header.parent
       /\ Overlaps(current_block[1], hash_to_block[h].block)
  => /\ BlockHash(current_block[1]) \notin DOMAIN hash_to_block'
     /\ sent' = <<>>

C25_StaleCandidateDropped == [][C25_Step]_vars

\* a step in which a worker takes a payload of the given kind off the queue
Dequeues(kind) ==
  /\ msg_chan # <<>>
  /\ msg_chan' = Tail(msg_chan)
  /\ Head(msg_chan).kind = kind

\* the engine after insert_block_with_validation on each block in order, and
\* the concatenation of the lists the calls returned
RECURSIVE InsertEach(_, _)
InsertEach(bc, blocks) ==
  IF blocks = <<>> THEN [bc |-> bc, added |-> <<>>]
  ELSE LET r == insert_block_with_validation(bc, Head(blocks))
           rest == InsertEach(r.bc, Tail(blocks))
       IN  [bc |-> rest.bc, added |-> r.added_blocks \o rest.added]

\* C26: a worker that takes a Blocks message off the queue leaves the engine
\* as insert_block_with_validation on each block in message order leaves it,
\* and sends one NewBlockHashes broadcast carrying the concatenation of the
\* returned lists if that is non-empty, and nothing if it is empty.
C26_Step ==
  Dequeues("Blocks") =>
    LET each == InsertEach(Self, Head(msg_chan).body)
    IN  /\ SetSelf(each.bc)
        /\ sent' = IF each.added = <<>> THEN <<>>
                   ELSE <<[to |-> "all",
                           message |-> [kind |-> "NewBlockHashes", body |-> each.added]]>>
C26_BlocksHandled == [][C26_Step]_vars

\* the hashes of a list that are not keys of hash_to_block, in order
RECURSIVE NotInBlocks(_)
NotInBlocks(hashes) ==
  IF hashes = <<>> THEN <<>>
  ELSE (IF Head(hashes) \in Hashes THEN <<>> ELSE <<Head(hashes)>>)
         \o NotInBlocks(Tail(hashes))

\* C27: a worker that takes a NewBlockHashes message off the queue leaves the
\* engine unchanged and writes to the sending peer one GetBlocks with the
\* announced hashes that are not keys of hash_to_block, in announced order,
\* or nothing if there is no such hash.
C27_Step ==
  Dequeues("NewBlockHashes") =>
    LET wanted == NotInBlocks(Head(msg_chan).body)
    IN  /\ UNCHANGED engine_vars
        /\ sent' = IF wanted = <<>> THEN <<>>
                   ELSE <<[to |-> "peer",
                           message |-> [kind |-> "GetBlocks", body |-> wanted]]>>
RECURSIVE NewlyAccepted(_, _, _)
NewlyAccepted(transactions, before, after) ==
  IF transactions = <<>> THEN <<>>
  ELSE LET hash == TxHash(Head(transactions))
       IN  IF hash \in after \ before
             THEN <<hash>> \o NewlyAccepted(Tail(transactions), before \cup {hash}, after)
           ELSE NewlyAccepted(Tail(transactions), before, after)

\* C28: a worker that takes a Transactions message off the queue adds to the
\* mempool the transactions of the message that pass the signature check and
\* the state check against the tip, changes nothing else, and sends one
\* NewTransactionHashes broadcast carrying the hashes of the newly added ones
\* in order, each once, or nothing if none was added.
C28_Step ==
  Dequeues("Transactions") =>
    LET transactions == Head(msg_chan).body
        newly == NewlyAccepted(transactions, DOMAIN mempool, DOMAIN mempool')
    IN  /\ UNCHANGED <<hash_to_block, tip, orphanage, dirty_mempool>>
        /\ \A hash \in DOMAIN mempool : hash \in DOMAIN mempool' /\ mempool'[hash] = mempool[hash]
        /\ \A i \in 1 .. Len(transactions) :
             TxHash(transactions[i]) \in DOMAIN mempool'
               <=> \/ TxHash(transactions[i]) \in DOMAIN mempool
                   \/ /\ verify_signature(transactions[i])
                      /\ check_transaction_validity(hash_to_block[tip].state,
                                                    transactions[i].raw_transaction)
        /\ \A hash \in DOMAIN mempool' \ DOMAIN mempool :
             \E i \in 1 .. Len(transactions) :
               TxHash(transactions[i]) = hash /\ mempool'[hash] = transactions[i]
        /\ sent' = IF newly = <<>> THEN <<>>
                   ELSE <<[to |-> "all",
                           message |-> [kind |-> "NewTransactionHashes", body |-> newly]]>>
C29_Step ==
  \A i \in 1 .. Len(sent') :
    sent'[i].message.kind = "NewTransactionHashes" =>
      \A j \in 1 .. Len(sent'[i].message.body) :
        sent'[i].message.body[j] \in DOMAIN mempool'
C29_RejectedNotPropagated == [][C29_Step]_vars

\* C30: a worker that takes a payload off the queue that deserialises to no
\* Message leaves the engine unchanged, sends nothing and keeps running.
C30_Step ==
  (/\ msg_chan # <<>>
   /\ msg_chan' = Tail(msg_chan)
   /\ ~deserialize_is_ok(Head(msg_chan)))
    => /\ UNCHANGED engine_vars
       /\ sent' = <<>>
       /\ workers' = workers
C30_InvalidMessageDropped == [][C30_Step]_vars

(***************************************************************************)
(* C35  Pruning on a pure extension: when a call moves the tip to a child  *)
(* of the previous tip, the mempool after the call is the mempool before   *)
(* it without the transactions of the new tip block.                       *)
(***************************************************************************)
\* the step moves the tip to a child of the tip
PureExtension ==
  /\ tip' # tip
  /\ hash_to_block'[tip'].block.header.parent = tip

\* the hashes of the transactions of a block
TxHashesOf(block) ==
  {TxHash(block.content.transactions[i]) : i \in 1 .. Len(block.content.transactions)}

C35_RedundantStep ==
  PureExtension =>
    /\ DOMAIN mempool' = DOMAIN mempool \ TxHashesOf(hash_to_block'[tip'].block)
    /\ \A hash \in DOMAIN mempool' : mempool'[hash] = mempool[hash]
C35_PruneRedundant == [][C35_RedundantStep]_vars

\* C35 as amended: when a call moves the tip to a child of the previous tip,
\* the mempool after the call holds exactly the entries of the mempool
\* before it that are not transactions of the new tip block and that pass
\* check_transaction_validity on the new tip's state; the prune drops the
\* entries the block has made invalid.
C35_AmendedStep ==
  PureExtension =>
    /\ DOMAIN mempool' =
         {hash \in DOMAIN mempool \ TxHashesOf(hash_to_block'[tip'].block) :
            check_transaction_validity(hash_to_block'[tip'].state,
                                       mempool[hash].raw_transaction)}
    /\ \A hash \in DOMAIN mempool' : mempool'[hash] = mempool[hash]
C35_PruneOnExtension == [][C35_AmendedStep]_vars

\* family_a has extended the all-zero-hash block as the tip: every entry the
\* mempool held for account 0 with nonce 0 or 1 is gone
C35_Witness ==
  /\ tip = BlockHash(family_a)
  /\ DOMAIN hash_to_block = {genesis_hash, BlockHash(family_root), BlockHash(family_a)}
  /\ mempool = <<>>

(***************************************************************************)
(* The engine fed with chains of blocks whose transactions create an       *)
(* account, spend from it, follow on each other's nonces, skip a nonce,    *)
(* repeat their parent's, or are signed with a key that is not the         *)
(* sender's                                                                *)
(***************************************************************************)
\* account 0's third transaction, and one that skips a nonce after it
tx_pay_2 == from_raw(RawTransaction(Addr(0), Addr(1), 1, 2), 0)
tx_skip == from_raw(RawTransaction(Addr(0), Addr(1), 1, 3), 0)
\* the second transaction of the account outside the ICO: a self-transfer
tx_self == from_raw(RawTransaction(Addr(NewKey), Addr(NewKey), 3, 1), NewKey)

\* blocks that differ from those of the family in the timestamp their miner
\* wrote
LaterBlock(parent_block, nonce, transactions) ==
  [header |-> [parent |-> BlockHash(parent_block), nonce |-> nonce,
               difficulty |-> MaxHash, timestamp |-> FutureTimestamp,
               merkle_root |-> ZeroHash],
   content |-> [transactions |-> transactions]]
chain_next == LaterBlock(family_a, 0, <<tx_pay_2>>)
chain_skip == LaterBlock(family_a, 1, <<tx_skip>>)
chain_drain == LaterBlock(family_root, 0, <<tx_drain>>)
chain_spend == LaterBlock(chain_drain, 0, <<tx_new_sender, tx_self>>)
chain_forged == LaterBlock(family_root, 1, <<tx_not_owner>>)
ChainFamily ==
  {family_root, family_a, family_a_replay, chain_next, chain_skip, chain_drain,
   chain_spend, chain_forged}

\* a call of insert_block_with_validation with a block of the chains that the
\* engine neither stores nor holds in its orphanage
DeliverChainBlock ==
  /\ \E block \in ChainFamily :
       /\ BlockHash(block) \notin DOMAIN hash_to_block
       /\ block \notin OrphansOf(orphanage)
       /\ SetSelf(insert_block_with_validation(Self, block).bc)
  /\ UNCHANGED <<lock_vars, net_vars, novelty, ledger, returned, merkle_vars,
                 miner_vars, gossip_vars, sent>>

NextChain == DeliverChainBlock \/ InsertTransaction

\* the engine fed with the chains in any order, and with transactions
SpecChain == Init /\ [][NextChain]_vars

(***************************************************************************)
(* C37  Coin conservation: in the state stored with every block the        *)
(* balances add up to the 55000 coins of the ICO, so no balance is above   *)
(* 55000 and no u64 addition or subtraction of update_in_place wraps.      *)
(***************************************************************************)
RECURSIVE SumBalances(_, _)
SumBalances(state, accounts) ==
  IF accounts = {} THEN 0
  ELSE LET a == CHOOSE x \in accounts : TRUE
       IN  state[a].balance + SumBalances(state, accounts \ {a})

C37_CoinConservation ==
  \A h \in Hashes :
    /\ SumBalances(hash_to_block[h].state, DOMAIN hash_to_block[h].state) = 55000
    /\ \A a \in DOMAIN hash_to_block[h].state :
         /\ hash_to_block[h].state[a].balance >= 0
         /\ hash_to_block[h].state[a].balance <= 55000

\* a stored state in which an account outside the ICO was created, was paid
\* and has paid
C37_Witness ==
  \E h \in Hashes :
    /\ Addr(NewKey) \in DOMAIN hash_to_block[h].state
    /\ hash_to_block[h].state[Addr(NewKey)].nonce = 2
    /\ hash_to_block[h].state[Addr(NewKey)].balance = 9999

(***************************************************************************)
(* C38  Every transaction of every stored block is signature-authentic:    *)
(* its signature verifies under its public key and the key's address is    *)
(* the sender.                                                             *)
(***************************************************************************)
C38_BlockTransactionsAuthentic ==
  \A h \in Hashes :
    \A i \in 1 .. Len(hash_to_block[h].block.content.transactions) :
      verify_signature(hash_to_block[h].block.content.transactions[i])

(***************************************************************************)
(* C39  No replay along a chain: on the path from genesis to any stored    *)
(* block no signed transaction and no (sender, nonce) pair is included     *)
(* twice, and the nonces of each sender's transactions are 0, 1, 2, ...    *)
(* in the order of inclusion.                                              *)
(***************************************************************************)
\* the transactions from genesis to the block of a stored hash, in order
RECURSIVE PathTransactions(_)
PathTransactions(h) ==
  IF h = BlockHash(genesis) THEN hash_to_block[h].block.content.transactions
  ELSE PathTransactions(ParentOf(h)) \o hash_to_block[h].block.content.transactions

\* how many of the first n transactions of a list are of a sender
RECURSIVE CountOf(_, _, _)
CountOf(transactions, n, sender) ==
  IF n = 0 THEN 0
  ELSE CountOf(transactions, n - 1, sender)
         + (IF transactions[n].raw_transaction.from_addr = sender THEN 1 ELSE 0)

NoReplayOn(transactions) ==
  /\ \A i, j \in 1 .. Len(transactions) :
       i # j =>
         /\ transactions[i] # transactions[j]
         /\ <<transactions[i].raw_transaction.from_addr,
              transactions[i].raw_transaction.nonce>>
            # <<transactions[j].raw_transaction.from_addr,
                transactions[j].raw_transaction.nonce>>
  /\ \A i \in 1 .. Len(transactions) :
       transactions[i].raw_transaction.nonce
         = CountOf(transactions, i - 1, transactions[i].raw_transaction.from_addr)

C39_NoReplayAlongChain == \A h \in Hashes : NoReplayOn(PathTransactions(h))

\* a stored block that holds account 0's third transaction after its
\* parent's first two
C39_Witness ==
  /\ BlockHash(chain_next) \in Hashes
  /\ PathTransactions(BlockHash(chain_next)) = <<tx_pay_0, tx_pay_1, tx_pay_2>>

(***************************************************************************)
(* The engine shared by the gossip workers and the miner: each call of     *)
(* insert_block_with_validation is made with the engine lock held, so the  *)
(* threads' calls follow one another in any order                          *)
(***************************************************************************)
\* the blocks peers send, some before their parents and some more than once
SharedFamily == {family_root, family_a, family_a_child, family_b_child}

\* a block the miner found on the all-zero-hash block, and the next nonce
twin_next == [twin EXCEPT !.header.nonce = 1]
MinedBlocks == {twin, twin_next}

\* how often a block waits in the orphanage
RECURSIVE TimesIn(_, _)
TimesIn(list, block) ==
  IF list = <<>> THEN 0
  ELSE (IF Head(list) = block THEN 1 ELSE 0) + TimesIn(Tail(list), block)
TimesBuffered(orph, block) ==
  IF block.header.parent \in DOMAIN orph
    THEN TimesIn(orph[block.header.parent], block) ELSE 0

\* the end of a call of insert_block_with_validation: r is what it returned
Inserted(r) ==
  /\ SetSelf(r.bc)
  /\ novelty' = novelty \o r.added_blocks

\* worker.rs line 100: a worker hands a block of a Blocks message to the
\* engine; peers send a block that is stored again, and a block that waits
\* in the orphanage once more
WorkerInsert ==
  /\ \E block \in SharedFamily :
       /\ TimesBuffered(orphanage, block) < 2
       /\ Inserted(insert_block_with_validation(Self, block))
  /\ UNCHANGED <<lock_vars, net_vars, ledger, returned, merkle_vars, miner_vars,
                 gossip_vars, sent>>

\* miner.rs line 142: the miner commits a block it found on a block that was
\* the tip when it assembled the candidate
MinerInsert ==
  /\ \E block \in MinedBlocks :
       /\ block.header.parent \in DOMAIN hash_to_block
       /\ Inserted(insert_block_with_validation(Self, block))
  /\ UNCHANGED <<lock_vars, net_vars, ledger, returned, merkle_vars, miner_vars,
                 gossip_vars, sent>>

NextShared == WorkerInsert \/ MinerInsert

SpecShared == Init /\ [][NextShared]_vars

(***************************************************************************)
(* C40  Novelty uniqueness: over all calls of insert_block_with_validation *)
(* of workers and miner, no hash is returned twice, in one list or in two, *)
(* also when the block was buffered as an orphan more than once, and the   *)
(* returned hashes are exactly the keys of hash_to_block but genesis'.     *)
(***************************************************************************)
C40_NoveltyUnique ==
  /\ \A i, j \in 1 .. Len(novelty) : i # j => novelty[i] # novelty[j]
  /\ {novelty[i] : i \in 1 .. Len(novelty)} = NonGenesis

\* a worker's call returned the all-zero-hash block and its child, which had
\* waited in the orphanage, the miner's call returned a block of its own,
\* and another block waits twice for its parent
C40_Witness ==
  /\ BlockHash(family_a) \in NonGenesis
  /\ BlockHash(twin) \in NonGenesis
  /\ TimesBuffered(orphanage, family_b_child) = 2
  /\ Len(novelty) = 3


(***************************************************************************)
(* The miner thread and a gossip worker followed from one lock operation   *)
(* to the next: both share the engine behind Arc<Mutex<Blockchain>>        *)
(***************************************************************************)
\* what peers send to the worker: a Ping, announcements and requests, the
\* block the miner can build on, a block written by a clock ahead of this
\* node's, and the pool
LockPayloads ==
  {Message("Ping", "0"),
   Message("NewBlockHashes", <<BlockHash(family_root), genesis_hash>>),
   Message("GetBlocks", <<genesis_hash>>),
   Message("Blocks", <<family_root>>),
   Message("Blocks", <<family_late>>),
   Message("NewTransactionHashes", <<TxHash(tx_pay_0)>>),
   Message("GetTransactions", <<TxHash(payment(0))>>),
   Message("Transactions", PoolForwards)}

\* the arms of worker_loop that lock the engine (worker.rs lines 64-145)
EngineKinds ==
  {"NewBlockHashes", "GetBlocks", "Blocks", "NewTransactionHashes", "GetTransactions",
   "Transactions"}

\* worker.rs: who holds the lock once an arm has done its work on the engine.
\* The arms that answer the sender call drop(blockchain) before peer.write
\* (lines 71, 84, 114, 127); the Blocks and the Transactions arm (lines
\* 89-106, 132-145) keep the guard to the end of the arm.
guard_after_handling(kind, holder) ==
  IF kind \in {"Blocks", "Transactions"} THEN holder ELSE "free"

\* miner.rs line 193, and line 187 where the guard goes with the return
guard_after_selection_kept(holder) == holder

guard_after_selection(holder) == "free"

\* miner.rs line 143: drop(blockchain)
guard_after_commit(holder) == "free"

\* Mutex::lock().expect(..) by a thread: it waits while another holds the
\* lock, and panics on a lock that a panic has poisoned
Locks(thread) == lock = "free" /\ lock' = thread
LockPoisoned == lock = "poisoned" /\ lock' = lock

\* the API starts a paused miner
StartMining ==
  /\ miner_pc = "loop"
  /\ operating_state.kind = "Paused"
  /\ control_chan = <<>>
  /\ \E lambda \in Lambdas : control_chan' = <<Start(lambda)>>
  /\ sent' = <<>>
  /\ UNCHANGED <<lock, worker_pc, in_hand, outbox, net_vars, novelty, operating_state,
                 miner_pc, current_block, engine_vars, ledger, returned, merkle_vars,
                 gossip_vars>>

\* miner.rs lines 130-132 and 166: without a candidate the miner calls
\* create_next_block, which starts by locking the engine
MinerTakeLock ==
  /\ miner_pc = "mine"
  /\ \/ current_block = <<>> /\ Locks("miner") /\ miner_pc' = "select"
     \/ current_block = <<>> /\ LockPoisoned /\ miner_pc' = "panicked"
     \/ current_block # <<>> /\ lock' = lock /\ miner_pc' = "hash"
  /\ sent' = <<>>
  /\ UNCHANGED <<worker_pc, in_hand, outbox, net_vars, novelty, operating_state,
                 control_chan, current_block, engine_vars, ledger, returned,
                 merkle_vars, gossip_vars>>

\* lines 167-193: tip, difficulty and the transactions are read under the
\* lock, then the guard is dropped.  candidate is what create_next_block goes
\* on to return from these; before "build" is left it is a local of that call.
MinerSelected(candidate) ==
  /\ current_block' = candidate
  /\ miner_pc' = IF candidate = <<>> THEN "hash" ELSE "build"

MinerSelect ==
  /\ miner_pc = "select"
  /\ \E starting_nonce \in 0 .. MaxNonce, pending \in mempool_transactions(Self) :
       MinerSelected(create_next_block(Self, starting_nonce, pending, now))
  /\ lock' = guard_after_selection(lock)
  /\ sent' = <<>>
  /\ UNCHANGED <<worker_pc, in_hand, outbox, net_vars, novelty, operating_state,
                 control_chan, engine_vars, ledger, returned, merkle_vars, gossip_vars>>

\* lines 194-209: the clock is read, the Merkle tree built and the block put
\* together from the locals
MinerBuild ==
  /\ miner_pc = "build"
  /\ miner_pc' = "hash"
  /\ sent' = <<>>
  /\ UNCHANGED <<lock_vars, net_vars, novelty, operating_state, control_chan,
                 current_block, engine_vars, ledger, returned, merkle_vars, gossip_vars>>

\* lines 133-140 and 149: the timestamp is refreshed and the hash compared
\* with the difficulty; a hash that fails makes the nonce go up by one
HashOf(block, hash) ==
  \/ /\ hash <= block.header.difficulty
     /\ current_block' = <<block>>
     /\ miner_pc' = "commit_lock"
  \/ /\ hash > block.header.difficulty
     /\ current_block' = <<[block EXCEPT !.header.nonce = (@ + 1) % (MaxNonce + 1)]>>
     /\ miner_pc' = "sleep"

HashOfBlock(block) == HashOf(block, BlockHash(block))

MinerHash ==
  /\ miner_pc = "hash"
  /\ \/ current_block = <<>> /\ current_block' = current_block /\ miner_pc' = "sleep"
     \/ /\ current_block # <<>>
        /\ HashOfBlock([current_block[1] EXCEPT !.header.timestamp = now])
  /\ sent' = <<>>
  /\ UNCHANGED <<lock_vars, net_vars, novelty, operating_state, control_chan,
                 engine_vars, ledger, returned, merkle_vars, gossip_vars>>

\* line 141: the engine is locked for the commit
MinerCommitLock ==
  /\ miner_pc = "commit_lock"
  /\ \/ Locks("miner") /\ miner_pc' = "commit"
     \/ LockPoisoned /\ miner_pc' = "panicked"
  /\ sent' = <<>>
  /\ UNCHANGED <<worker_pc, in_hand, outbox, net_vars, novelty, operating_state,
                 control_chan, current_block, engine_vars, ledger, returned,
                 merkle_vars, gossip_vars>>

\* lines 142-143: the block is inserted and the guard dropped.  The code takes
\* the candidate out of current_block here and keeps its hash in a local; the
\* model keeps the candidate until the broadcast that sends that hash.
MinerCommit ==
  /\ miner_pc = "commit"
  /\ SetSelf(insert_block_with_validation(Self, current_block[1]).bc)
  /\ lock' = guard_after_commit(lock)
  /\ miner_pc' = "broadcast"
  /\ sent' = <<>>
  /\ UNCHANGED <<worker_pc, in_hand, outbox, net_vars, novelty, operating_state,
                 control_chan, current_block, ledger, returned, merkle_vars,
                 gossip_vars>>

\* lines 144-147: the hash is broadcast and the candidate given up
MinerBroadcast ==
  /\ miner_pc = "broadcast"
  /\ sent' = <<server_broadcast(Message("NewBlockHashes",
                                        <<BlockHash(current_block[1])>>))>>
  /\ current_block' = <<>>
  /\ miner_pc' = "sleep"
  /\ UNCHANGED <<lock_vars, net_vars, novelty, operating_state, control_chan,
                 engine_vars, ledger, returned, merkle_vars, gossip_vars>>

\* lines 156-161: the thread sleeps if lambda is not 0
MinerSleep ==
  /\ miner_pc = "sleep"
  /\ miner_pc' = "loop"
  /\ sent' = <<>>
  /\ UNCHANGED <<lock_vars, net_vars, novelty, operating_state, control_chan,
                 current_block, engine_vars, ledger, returned, merkle_vars, gossip_vars>>

\* worker.rs lines 53-63: a payload is taken off the queue and deserialised;
\* the arms that do not touch the engine are done at once
Taken(payload) ==
  /\ in_hand' = <<payload>>
  /\ worker_pc' = IF ~deserialize_is_ok(payload) THEN "panicked"
                  ELSE IF payload.kind \in EngineKinds THEN "lock" ELSE "send"
  /\ outbox' = IF payload.kind \in EngineKinds THEN <<>>
               ELSE handle_payload(Self, payload, FALSE).sent

\* peers send no block this node holds in its orphanage
WorkerTake(payloads) ==
  /\ worker_pc = "recv"
  /\ \E payload \in payloads :
       /\ blocks_of(payload) \cap OrphansOf(orphanage) = {}
       /\ Taken(payload)
  /\ sent' = <<>>
  /\ UNCHANGED <<lock, net_vars, novelty, engine_vars, ledger, returned, merkle_vars,
                 miner_vars, gossip_vars>>

\* lines 66, 78, 96, 109, 121, 134: the arm locks the engine
WorkerLock ==
  /\ worker_pc = "lock"
  /\ \/ Locks("worker") /\ worker_pc' = "handle"
     \/ LockPoisoned /\ worker_pc' = "panicked"
  /\ sent' = <<>>
  /\ UNCHANGED <<in_hand, outbox, net_vars, novelty, engine_vars, ledger, returned,
                 merkle_vars, miner_vars, gossip_vars>>

\* the arm's work on the engine: r is what handle_payload makes of the
\* payload in hand; a panic under the lock poisons it
WorkerHandled(r) ==
  /\ SetSelf(r.bc)
  /\ outbox' = r.sent
  /\ worker_pc' = IF r.panicked THEN "panicked" ELSE "send"
  /\ lock' = IF r.panicked THEN "poisoned"
             ELSE guard_after_handling(in_hand[1].kind, lock)

WorkerHandle ==
  /\ worker_pc = "handle"
  /\ \E overflow_checks \in BOOLEAN :
       WorkerHandled(handle_payload(Self, in_hand[1], overflow_checks))
  /\ sent' = <<>>
  /\ UNCHANGED <<in_hand, net_vars, novelty, ledger, returned, merkle_vars,
                 miner_vars, gossip_vars>>

\* peer.write or server.broadcast of what the arm has to send, and the end of
\* the arm, where a guard that is still alive is dropped
WorkerSend ==
  /\ worker_pc = "send"
  /\ sent' = outbox
  /\ outbox' = <<>>
  /\ in_hand' = <<>>
  /\ lock' = IF lock = "worker" THEN "free" ELSE lock
  /\ worker_pc' = "recv"
  /\ UNCHANGED <<net_vars, novelty, engine_vars, ledger, returned, merkle_vars,
                 miner_vars, gossip_vars>>

\* what peers send while the miner is followed: the block it can build on, a
\* block written by a clock ahead of this node's, and the pool
MinerLockPayloads ==
  {Message("Blocks", <<family_root>>), Message("Blocks", <<family_late>>),
   Message("Transactions", PoolForwards)}

WorkerTakeWhileMining == WorkerTake(MinerLockPayloads)
WorkerTakeAny == WorkerTake(LockPayloads)

\* the worker alone, on every kind of message
NextWorkerLock == WorkerTakeAny \/ WorkerLock \/ WorkerHandle \/ WorkerSend

SpecWorkerLock == Init /\ [][NextWorkerLock]_vars

NextLock ==
  \/ StartMining
  \/ MinerPaused
  \/ MinerPoll
  \/ MinerTakeLock
  \/ MinerSelect
  \/ MinerBuild
  \/ MinerHash
  \/ MinerCommitLock
  \/ MinerCommit
  \/ MinerBroadcast
  \/ MinerSleep
  \/ WorkerTakeWhileMining
  \/ WorkerLock
  \/ WorkerHandle
  \/ WorkerSend

SpecLock == Init /\ [][NextLock]_vars

(* C32: a gossip worker sends nothing, to the sender or to all peers, while *)
(* it holds the engine lock.                                                *)
C32_SendsOutsideLock == (worker_pc = "send" /\ outbox # <<>>) => lock # "worker"

(* C33: the miner holds the engine lock exactly while create_next_block     *)
(* reads tip and mempool and while it commits a found block; it holds none  *)
(* while it builds the block, hashes, increments the nonce, sleeps or       *)
(* broadcasts, and the engine changes under it only in the commit.          *)
C33_MinerLocking ==
  /\ lock = "miner" <=> miner_pc \in {"select", "commit"}
  /\ miner_pc \in {"build", "hash", "commit_lock", "broadcast", "sleep", "loop", "mine"}
       => lock \in {"free", "worker", "poisoned"}

\* a gossip worker holds the lock between two attempts of the miner on one
\* candidate, and has changed the tip since the candidate was built
C33_Witness ==
  /\ lock = "worker"
  /\ miner_pc \in {"hash", "sleep"}
  /\ current_block # <<>>
  /\ current_block[1].header.parent # tip

(* C36: whatever the timestamps of its blocks, later than this node's clock *)
(* included, a worker that takes a Blocks message off the queue goes on     *)
(* running and has handed every block of it to insert_block_with_validation.*)
C36_Step ==
  Dequeues("Blocks") =>
    /\ workers' = workers
    /\ SetSelf(InsertEach(Self, Head(msg_chan).body).bc)
C36_TimestampNotGating == [][C36_Step]_vars


(***************************************************************************)
(* The engine and the call of create_next_block: peers gossip transactions *)
(* and a block, the miner assembles candidates                             *)
(***************************************************************************)
\* what peers send: the block the miner can build on and a block on it with
\* two transactions of account 0, the first payments of accounts 0 to 4,
\* those of accounts 0 to 3 only, and those of accounts 4 to 7 with a second
\* transaction of account 7 that has the nonce of the first
AssemblePayloads ==
  {Message("Blocks", <<family_root>>),
   Message("Blocks", <<family_a>>),
   Message("Transactions", PoolForwards),
   Message("Transactions", [i \in 1 .. 4 |-> payment(i - 1)]),
   Message("Transactions", [i \in 1 .. 4 |-> payment(i + 3)] \o <<double_spend>>)}

ReceiveForAssembly == Receive(AssemblePayloads)

\* miner.rs line 131: current_block = self.create_next_block(rand::random())
CreateNextBlock ==
  /\ \E starting_nonce \in 0 .. MaxNonce, pending \in mempool_transactions(Self) :
       current_block' = create_next_block(Self, starting_nonce, pending, now)
  /\ sent' = <<>>
  /\ UNCHANGED <<lock_vars, net_vars, novelty, operating_state, control_chan, miner_pc,
                 engine_vars, ledger, returned, merkle_vars, gossip_vars>>

NextAssemble == ReceiveForAssembly \/ CreateNextBlock

SpecAssemble == Init /\ [][NextAssemble]_vars

\* some count of the transactions of a set apply one after the other to state
RECURSIVE CanApply(_, _, _)
CanApply(state, transactions, count) ==
  \/ count = 0
  \/ \E t \in transactions :
       /\ update_in_place(state, t.raw_transaction).ok
       /\ CanApply(update_in_place(state, t.raw_transaction).state,
                   transactions \ {t}, count - 1)

InMempool == {mempool[hash] : hash \in DOMAIN mempool}

\* what C34 says of a candidate
C34_Candidate(block) ==
  /\ block.header.parent = tip
  /\ block.header.difficulty = hash_to_block[tip].block.header.difficulty
  /\ Len(block.content.transactions) >= 5
  /\ Len(block.content.transactions) <= 7
  /\ \A i \in 1 .. Len(block.content.transactions) :
       /\ block.content.transactions[i] \in InMempool
       /\ \A j \in 1 .. Len(block.content.transactions) :
            block.content.transactions[i] = block.content.transactions[j] => i = j
  /\ AllApply(hash_to_block[tip].state, RawTransactions(block))

(* C34: a candidate create_next_block returns has the tip as parent and the *)
(* tip's difficulty, holds 5 to 7 transactions of the mempool, each once,   *)
(* and they apply in block order to the tip's state; it returns none only   *)
(* if no 5 transactions of the mempool apply one after the other; the       *)
(* engine is left as it was either way.                                     *)
C34_Step ==
  CreateNextBlock =>
    /\ UNCHANGED engine_vars
    /\ current_block' # <<>> => C34_Candidate(current_block'[1])
    /\ current_block' = <<>> => ~CanApply(hash_to_block[tip].state, InMempool, 5)
C34_BlockAssembly == [][C34_Step]_vars

\* a candidate of 7 transactions built while the mempool holds more, among
\* them two of one sender with one nonce
C34_Witness ==
  /\ current_block # <<>>
  /\ Len(current_block[1].content.transactions) = 7
  /\ Cardinality(InMempool) > 7
  /\ {payment(7), double_spend} \subseteq InMempool
  /\ current_block[1].header.parent = tip
  /\ tip # BlockHash(genesis)


(***************************************************************************)
(* Two nodes, this one (A) and a peer (P), connected to each other: what a *)
(* gossip worker of one writes to the sender or broadcasts reaches the     *)
(* queue of the other, in order                                            *)
(***************************************************************************)
\* the blocks a third peer sends to A: the all-zero-hash block, a block on
\* it with transactions, and a block on it written by a clock ahead of the
\* nodes'
NetBlocks == {family_root, family_a, family_late}

\* the payloads of the messages a turn sent, in order; with two nodes the
\* sender of what a worker handles and the other peers are the other node
RECURSIVE delivered(_)
delivered(sent_messages) ==
  IF sent_messages = <<>> THEN <<>>
  ELSE <<Head(sent_messages).message>> \o delivered(Tail(sent_messages))

\* the NewBlockHashes broadcasts among the messages a turn of a node sent
RECURSIVE announcements(_, _)
announcements(node, sent_messages) ==
  IF sent_messages = <<>> THEN <<>>
  ELSE (IF Head(sent_messages).to = "all"
           /\ Head(sent_messages).message.kind = "NewBlockHashes"
          THEN <<[node |-> node, hashes |-> Head(sent_messages).message.body]>>
        ELSE <<>>) \o announcements(node, Tail(sent_messages))

\* a third peer sends A a block A has the parent of and does not have (only
\* Blocks messages, which a worker answers with broadcasts only)
SourceSend ==
  /\ Len(msg_chan) < MaxQueue
  /\ \E block \in NetBlocks :
       /\ block.header.parent \in DOMAIN hash_to_block
       /\ BlockHash(block) \notin DOMAIN hash_to_block
       /\ msg_chan' = Append(msg_chan, Message("Blocks", <<block>>))
  /\ sent' = <<>>
  /\ UNCHANGED <<lock_vars, peer_engine, peer_chan, peer_workers, announced, novelty,
                 engine_vars, workers, next_sender_acc, ledger, returned, merkle_vars,
                 miner_vars>>

\* the end of a turn of worker_loop of A: r is what handle_payload returned
HandledByA(r) ==
  /\ SetSelf(r.bc)
  /\ sent' = r.sent
  /\ workers' = IF r.panicked THEN workers - 1 ELSE workers
  /\ peer_chan' = peer_chan \o delivered(r.sent)
  /\ announced' = announced \o announcements("A", r.sent)

\* worker_loop of A, one turn
WorkerLoopA ==
  /\ workers > 0
  /\ msg_chan # <<>>
  /\ \E overflow_checks \in BOOLEAN :
       HandledByA(handle_payload(Self, Head(msg_chan), overflow_checks))
  /\ msg_chan' = Tail(msg_chan)
  /\ UNCHANGED <<lock_vars, peer_engine, peer_workers, novelty, next_sender_acc,
                 ledger, returned, merkle_vars, miner_vars>>

\* the end of a turn of worker_loop of P
HandledByP(r) ==
  /\ peer_engine' = r.bc
  /\ sent' = r.sent
  /\ peer_workers' = IF r.panicked THEN peer_workers - 1 ELSE peer_workers
  /\ msg_chan' = msg_chan \o delivered(r.sent)
  /\ announced' = announced \o announcements("P", r.sent)

\* worker_loop of P, one turn
WorkerLoopP ==
  /\ peer_workers > 0
  /\ peer_chan # <<>>
  /\ \E overflow_checks \in BOOLEAN :
       HandledByP(handle_payload(peer_engine, Head(peer_chan), overflow_checks))
  /\ peer_chan' = Tail(peer_chan)
  /\ UNCHANGED <<lock_vars, novelty, engine_vars, workers, next_sender_acc,
                 ledger, returned, merkle_vars, miner_vars>>

NextNet == SourceSend \/ WorkerLoopA \/ WorkerLoopP

SpecNet == Init /\ [][NextNet]_vars

\* a turn of a worker of A, and of P, told by the node's queue: a node's
\* queue loses its head in the turns of that node's workers only
TurnOfA == workers > 0 /\ msg_chan # <<>> /\ msg_chan' = Tail(msg_chan)
TurnOfP == peer_workers > 0 /\ peer_chan # <<>> /\ peer_chan' = Tail(peer_chan)

\* the workers of a node that has a message in its queue are scheduled, and
\* every message written is delivered (the queues lose nothing)
SpecNetFair ==
  Init /\ [][NextNet]_vars /\ WF_msg_chan(TurnOfA) /\ WF_peer_chan(TurnOfP)


\* the blocks of A and of P, and what a node has announced
HasA(block) == BlockHash(block) \in DOMAIN hash_to_block
HasP(block) == BlockHash(block) \in DOMAIN peer_engine.hash_to_block
TimesAnnounced(node, hash) ==
  Cardinality({i \in 1 .. Len(announced) :
                 /\ announced[i].node = node
                 /\ \E j \in 1 .. Len(announced[i].hashes) : announced[i].hashes[j] = hash})

\* P comes to have a block only in a turn on a Blocks message that carries
\* it, and that A sent in reply to P's GetBlocks
C31_PullStep ==
  \A block \in NetBlocks :
    (~HasP(block) /\ BlockHash(block) \in DOMAIN peer_engine'.hash_to_block)
      => /\ peer_chan # <<>>
         /\ Head(peer_chan).kind = "Blocks"
         /\ block \in blocks_of(Head(peer_chan))

\* a block A has and P has the parent of gets to P, which announces it
C31_Leads(block) ==
  (HasA(block) /\ block.header.parent \in DOMAIN peer_engine.hash_to_block)
    ~> (HasP(block) /\ TimesAnnounced("P", BlockHash(block)) = 1)

(* C31: with the workers of both nodes scheduled and every message          *)
(* delivered, a block A added from a Blocks message and whose parent P has  *)
(* gets to P through NewBlockHashes, GetBlocks and Blocks, and P announces  *)
(* it; no node's gossip workers announce a hash more than once.             *)
C31_Propagation ==
  /\ \A block \in NetBlocks : C31_Leads(block)
  /\ [][C31_PullStep]_vars
  /\ [](\A block \in NetBlocks, node \in {"A", "P"} :
          TimesAnnounced(node, BlockHash(block)) <= 1)


\* the same while no worker of either node has panicked
C31_WhileAllRun ==
  \A block \in NetBlocks :
    [](workers = NumWorkers /\ peer_workers = NumWorkers) => C31_Leads(block)

====
